---- MODULE Spec2Model ----
(***************************************************************************)
(* Seat-accounting engine and passenger-plan matching of the "poputchiki"  *)
(* ride-sharing bot.  The store is one SQLite connection shared by all     *)
(* requests; every db.get / db.run of the source is one atomic statement   *)
(* and a request is suspended between its statements, so the statements    *)
(* of concurrent requests interleave freely.  The data-access layer that   *)
(* index.js imports is the revision in src/unnamed/part_001, lines 1-1012. *)
(***************************************************************************)
EXTENDS Integers, Sequences, FiniteSets, TLC

VARIABLES
    users,      \* table users: internal id -> row (rows are never deleted)
    trips,      \* table trips: id -> row, for the ids that exist
    tripSeq,    \* AUTOINCREMENT counter of trips (ids are never reused)
    bookings,   \* table bookings: sequence of rows, id = index
    plans,      \* table passenger_plans: sequence of rows, id = index
    inTx,       \* TRUE while a transaction is open on the connection
    now,        \* Date.now()
    settings,   \* table app_settings: its single row (id = 1)
    proofs,     \* table driver_payment_proofs: sequence of rows, id = index
    tz,         \* offset of the server's local time from UTC
    undo,       \* the tables as they were at BEGIN, while a transaction is open
    procs       \* the requests: slot -> operation, position, locals, answer

vars == <<users, trips, tripSeq, bookings, plans, inTx, now, settings, proofs,
          tz, undo, procs>>

(***************************************************************************)
(* Bounds of the model.                                                    *)
(***************************************************************************)
MaxTrips == 1
MaxBookings == 2
MaxSeats == 3
MaxTime == 1
MaxNoShow == 2
MaxPlans == 1
TicksPerDay == 2
WholeSeat == 2
MaxGateTrips == 2
MaxGateTime == 2
MaxProofs == 2
MaxZone == 1
MaxLateTime == 2

\* request slots of the seat-accounting engine; a slot whose request was
\* answered may take a new request
Procs == {1, 2}
\* request slots of the plan handlers; each takes one request
PlanProcs == {1, 2, 3}

\* telegram ids of the users registered before the first request
RegisteredTg == {101, 102, 103}
\* a telegram id nobody registered
UnknownTg == CHOOSE tg \in 100..104 : tg \notin RegisteredTg

\* Date.parse of a departure_time that is no date gives NaN
NaT == -1
IsFinite(ts) == ts >= 0

TripIds == 1..MaxTrips
DepartureTimes == (1..MaxTime) \cup {NaT}

NoRow == [none |-> TRUE]

(***************************************************************************)
(* Rows and lookups.                                                       *)
(***************************************************************************)
UserIds == DOMAIN users

\* SELECT * FROM users WHERE telegram_id = ?  (0 stands for null)
getUserByTelegramId(tg) ==
    IF \E i \in UserIds : users[i].telegram_id = tg
    THEN CHOOSE i \in UserIds : users[i].telegram_id = tg
    ELSE 0

\* the users that post trips, and the ones that book
DriverIds == {1}

BookingIds == 1..Len(bookings)
PlanIds == 1..Len(plans)

Idle == [op |-> "idle", pc |-> "idle", tripId |-> 0, bookingId |-> 0,
         planId |-> 0, caller |-> 0, uid |-> 0, seats |-> 0, row |-> NoRow,
         early |-> FALSE, res |-> ""]

InFlight(p) == procs[p].pc \notin {"idle", "done"}
Free(p) == ~InFlight(p)

\* the request in slot p is answered with res
\* (the answered request keeps what identifies it; its locals are gone)
Answer(p, res) ==
    [procs EXCEPT ![p] = [Idle EXCEPT !.op = procs[p].op, !.pc = "done",
                                      !.tripId = procs[p].tripId,
                                      !.bookingId = procs[p].bookingId,
                                      !.planId = procs[p].planId,
                                      !.uid = procs[p].uid,
                                      !.early = procs[p].early,
                                      !.res = res]]
Goto(p, pc) == [procs EXCEPT ![p].pc = pc]

InitTables ==
    /\ users = [i \in 1..Cardinality(RegisteredTg) |->
                  [telegram_id |-> 100 + i, no_show_count |-> 0, is_blocked |-> FALSE,
                   first_name |-> "a", car_plate |-> ""]]
    /\ trips = << >>
    /\ tripSeq = 0
    /\ bookings = << >>
    /\ plans = << >>
    /\ inTx = FALSE
    /\ now = 0
    /\ settings = [monetization_enabled |-> FALSE, payment_details |-> ""]
    /\ proofs = << >>
    /\ undo = NoRow
    /\ procs = [p \in PlanProcs |-> Idle]

\* the server's clock is set to UTC
Init == InitTables /\ tz = 0

\* the clock advances, up to limit
TickTo(limit) ==
    /\ now < limit
    /\ now' = now + 1
    /\ UNCHANGED <<users, trips, tripSeq, bookings, plans, inTx,
                 procs, settings, proofs, tz, undo>>

Tick == TickTo(MaxTime)

(***************************************************************************)
(* createTrip: validates the numbers and inserts the trip row.             *)
(***************************************************************************)
NewTrip(id, driverId, departureTime, seatsTotal, pricePerSeat) ==
    [id |-> id, driver_id |-> driverId, departure_time |-> departureTime,
     seats_total |-> seatsTotal, seats_available |-> seatsTotal,
     price_per_seat |-> pricePerSeat]

\* INSERT INTO trips (...): the table with the new row, id from AUTOINCREMENT
TripsWith(driverId, departureTime, seatsTotal, pricePerSeat) ==
    [i \in DOMAIN trips \cup {tripSeq + 1} |->
       IF i = tripSeq + 1
       THEN NewTrip(i, driverId, departureTime, seatsTotal, pricePerSeat)
       ELSE trips[i]]

createTrip(driverId, departureTime, seatsTotal, pricePerSeat) ==
    /\ tripSeq < MaxTrips
    /\ seatsTotal > 0
    /\ pricePerSeat >= 0
    /\ tripSeq' = tripSeq + 1
    /\ trips' = TripsWith(driverId, departureTime, seatsTotal, pricePerSeat)
    /\ UNCHANGED <<users, bookings, plans, inTx, now, procs,
                 settings, proofs, tz, undo>>


dbVars == <<users, trips, tripSeq, bookings, plans, inTx, now, settings, proofs,
           tz, undo>>

\* a request arrives and takes the first free slot
Arrive(p, rec) ==
    /\ Free(p)
    /\ \A q \in Procs : q < p => InFlight(q)
    /\ procs' = [procs EXCEPT ![p] = rec]
    /\ UNCHANGED dbVars

At(p, pc) == procs[p].pc = pc

(***************************************************************************)
(* createBooking({tripId, passengerTelegramId, seatsBooked})               *)
(***************************************************************************)
\* Number(seatsBooked) of a value that is no number
NotANumber == -1000

\* !Number.isFinite(seatsNum) || seatsNum <= 0
BadSeats(seatsNum) == seatsNum = NotANumber \/ seatsNum <= 0

\* trip.seats_available < seatsNum, on the trip row read at the start
NotEnoughSeats(trip, seatsNum) == trip.seats_available < seatsNum

\* APP_FEE_PERCENT (0.10 unless the environment sets it), in percent
AppFeePercent == 10

\* const amountTotal = pricePerSeat * seatsNum
AmountTotal(pricePerSeat, seatsNum) == pricePerSeat * seatsNum

\* a fee that drops the part of a unit
AppFeeTruncated(amountTotal) == (amountTotal * AppFeePercent) \div 100

\* Math.round(amountTotal * APP_FEE_PERCENT): to the nearest unit, halves up
AppFee(amountTotal) == (amountTotal * AppFeePercent + 50) \div 100

\* const driverAmount = amountTotal - appFee
DriverAmount(amountTotal) == amountTotal - AppFee(amountTotal)

\* datetime('now','localtime'): the server's local time, as stored in created_at
LocalNow == now + tz

\* date(X): the calendar day of the time X
DateOf(ts) == ts \div TicksPerDay

\* date(X, 'localtime'): X is taken to be UTC and shifted to local time first
DateLocaltime(ts) == DateOf(ts + tz)

\* UPDATE trips SET seats_available = seats_available - ? WHERE id = ?
SeatsAfterBooking(seatsAvailable, seatsNum) == seatsAvailable - seatsNum

\* the booking rows a createBooking in flight will still insert
PendingInserts ==
    Cardinality({q \in Procs : procs[q].pc \in
                    {"cb_getTrip", "cb_getUser", "cb_begin", "cb_insert"}})

\* the row of INSERT INTO bookings (...) VALUES (..., 'booked',
\* datetime('now','localtime')), from the trip row read at the start
NewBooking(trip, passengerId, seatsNum, createdAt) ==
    [trip_id |-> trip.id, passenger_id |-> passengerId, seats_booked |-> seatsNum,
     amount_total |-> AmountTotal(trip.price_per_seat, seatsNum),
     driver_amount |-> DriverAmount(AmountTotal(trip.price_per_seat, seatsNum)),
     app_fee |-> AppFee(AmountTotal(trip.price_per_seat, seatsNum)),
     status |-> "booked", created_at |-> createdAt]

createBooking(p, tripId, passengerTelegramId, seatsBooked) ==
    /\ Len(bookings) + PendingInserts < MaxBookings
    /\ Arrive(p, [Idle EXCEPT !.op = "createBooking", !.pc = "cb_getTrip",
                              !.tripId = tripId, !.caller = passengerTelegramId,
                              !.seats = seatsBooked])

\* a deadline check that lets the moment of departure itself pass
TooLateStrict(departTs, t) == IsFinite(departTs) /\ t > departTs

\* Number.isFinite(departTs) && now >= departTs
TooLate(departTs, t) == IsFinite(departTs) /\ t >= departTs

\* a first step that also refuses a trip that has left
cbGetTripTimed(p) ==
    LET r == procs[p] IN
    /\ At(p, "cb_getTrip")
    /\ procs' =
         IF r.tripId \notin DOMAIN trips THEN Answer(p, "TRIP_NOT_FOUND")
         ELSE IF TooLate(trips[r.tripId].departure_time, now)
              THEN Answer(p, "TOO_LATE")
         ELSE IF BadSeats(r.seats) THEN Answer(p, "BAD_SEATS")
         ELSE IF NotEnoughSeats(trips[r.tripId], r.seats)
              THEN Answer(p, "NOT_ENOUGH_SEATS")
         ELSE [procs EXCEPT ![p].pc = "cb_getUser", ![p].row = trips[r.tripId]]
    /\ UNCHANGED dbVars

\* const trip = await getAsync(SELECT * FROM trips WHERE id = ?) and the checks
\* made on it before the next await
cbGetTrip(p) ==
    LET r == procs[p] IN
    /\ At(p, "cb_getTrip")
    /\ procs' =
         IF r.tripId \notin DOMAIN trips THEN Answer(p, "TRIP_NOT_FOUND")
         ELSE IF BadSeats(r.seats) THEN Answer(p, "BAD_SEATS")
         ELSE IF NotEnoughSeats(trips[r.tripId], r.seats)
              THEN Answer(p, "NOT_ENOUGH_SEATS")
         ELSE [procs EXCEPT ![p].pc = "cb_getUser", ![p].row = trips[r.tripId]]
    /\ UNCHANGED dbVars

\* const passenger = await getUserByTelegramId(passengerTelegramId)
cbGetUser(p) ==
    LET r == procs[p]
        passenger == getUserByTelegramId(r.caller) IN
    /\ At(p, "cb_getUser")
    /\ procs' =
         IF passenger = 0 THEN Answer(p, "PASSENGER_NOT_FOUND")
         ELSE [procs EXCEPT ![p].pc = "cb_begin", ![p].uid = passenger]
    /\ UNCHANGED dbVars

\* the tables, as a transaction that begins now will find them on ROLLBACK
Tables ==
    [users |-> users, trips |-> trips, tripSeq |-> tripSeq, bookings |-> bookings,
     plans |-> plans, settings |-> settings, proofs |-> proofs]

\* db.run('BEGIN TRANSACTION'): SQLite refuses a BEGIN inside an open
\* transaction of the same connection, and the caller rejects with that error
Begin(p, from, to) ==
    /\ At(p, from)
    /\ IF inTx
       THEN /\ procs' = Answer(p, "STORE_ERROR")
            /\ UNCHANGED <<inTx, undo>>
       ELSE /\ procs' = Goto(p, to)
            /\ inTx' = TRUE
            /\ undo' = Tables

\* db.run('COMMIT')
Commit(p, from, to) ==
    /\ At(p, from)
    /\ inTx' = FALSE
    /\ undo' = NoRow

cbBegin(p) ==
    /\ Begin(p, "cb_begin", "cb_insert")
    /\ UNCHANGED <<users, trips, tripSeq, bookings, plans,
                 now, settings, proofs, tz>>

\* INSERT INTO bookings (...) VALUES (..., 'booked', ...); bookingId = this.lastID
cbInsert(p) ==
    LET r == procs[p] IN
    /\ At(p, "cb_insert")
    /\ bookings' = Append(bookings,
                     NewBooking(r.row, r.uid, r.seats, LocalNow))
    /\ procs' = [procs EXCEPT ![p].pc = "cb_update",
                              ![p].bookingId = Len(bookings) + 1]
    /\ UNCHANGED <<users, trips, tripSeq, plans, inTx, now,
                 settings, proofs, tz, undo>>

\* UPDATE trips SET seats_available = seats_available - ? WHERE id = ?
cbUpdate(p) ==
    LET r == procs[p] IN
    /\ At(p, "cb_update")
    /\ trips' = IF r.row.id \in DOMAIN trips
                THEN [trips EXCEPT ![r.row.id].seats_available =
                        SeatsAfterBooking(@, r.seats)]
                ELSE trips
    /\ procs' = Goto(p, "cb_commit")
    /\ UNCHANGED <<users, tripSeq, bookings, plans, inTx, now,
                 settings, proofs, tz, undo>>

\* the trip of resolve({ booking, trip, passenger }): the object that the
\* first statement of the call read
ReturnedTrip(r) == r.row

\* COMMIT, then SELECT * FROM bookings WHERE id = ? and
\* resolve({ booking, trip, passenger }) with the trip row read at the start
cbCommit(p) ==
    /\ Commit(p, "cb_commit", "done")
    /\ procs' = Answer(p, "OK")
    /\ UNCHANGED <<users, trips, tripSeq, bookings, plans,
                 now, settings, proofs, tz>>

(***************************************************************************)
(* The driver's day: getDriverDailyStats and hasDriverPaymentProofToday.   *)
(***************************************************************************)
\* date(created_at, 'localtime') = date('now','localtime')
CreatedToday(createdAt) == DateLocaltime(createdAt) = DateLocaltime(now)

\* FROM bookings b JOIN trips t ON t.id = b.trip_id WHERE t.driver_id = ? and
\* the day matches, of which the CASEs keep the rows with status 'booked'
BookedRows(driverId) ==
    {b \in BookingIds :
        /\ bookings[b].trip_id \in DOMAIN trips
        /\ trips[bookings[b].trip_id].driver_id = driverId
        /\ CreatedToday(bookings[b].created_at)
        /\ bookings[b].status = "booked"}

RECURSIVE SumFee(_)
\* SUM(b.app_fee) over the rows ids
SumFee(ids) ==
    IF ids = {} THEN 0
    ELSE LET b == CHOOSE x \in ids : TRUE IN
         bookings[b].app_fee + SumFee(ids \ {b})

\* COUNT(DISTINCT b.trip_id) and SUM(b.app_fee) of the booked rows
DailyStats(ids) ==
    [trips_count |-> Cardinality({bookings[b].trip_id : b \in ids}),
     app_fee_total |-> SumFee(ids)]

getDriverDailyStats(driverId) == DailyStats(BookedRows(driverId))

\* SELECT id FROM driver_payment_proofs WHERE driver_id = ? and the day matches
hasDriverPaymentProofToday(driverId) ==
    \E i \in DOMAIN proofs :
        proofs[i].driver_id = driverId /\ CreatedToday(proofs[i].created_at)

\* tripsToday > 0 && appFeeToday > 0 && !hasProof
GateDenies(stats, hasProof) ==
    stats.trips_count > 0 /\ stats.app_fee_total > 0 /\ ~hasProof

(***************************************************************************)
(* POST /api/trips: the blocked flag, the monetization gate, createTrip.   *)
(***************************************************************************)
PendingTrips ==
    Cardinality({q \in Procs : procs[q].op = "postTrip" /\ InFlight(q)})

postTrip(p, telegramId, departureTime, seatsTotal, pricePerSeat) ==
    /\ tripSeq + PendingTrips < MaxGateTrips
    /\ seatsTotal > 0
    /\ pricePerSeat >= 0
    /\ Arrive(p, [Idle EXCEPT !.op = "postTrip", !.pc = "pt_getUser",
                              !.caller = telegramId,
                              !.row = [departure_time |-> departureTime,
                                       seats_total |-> seatsTotal,
                                       price_per_seat |-> pricePerSeat,
                                       trips_count |-> 0, app_fee_total |-> 0]])

\* a first step that does not look at the blocked flag
ptGetUserAnyFlag(p) ==
    LET r == procs[p]
        user == getUserByTelegramId(r.caller) IN
    /\ At(p, "pt_getUser")
    /\ procs' =
         IF user = 0 THEN Answer(p, "USER_NOT_FOUND")
         ELSE [procs EXCEPT ![p].pc = "pt_settings", ![p].uid = user]
    /\ UNCHANGED dbVars

\* const user = await getUserByTelegramId(telegram_id); if (user.is_blocked) ...
ptGetUser(p) ==
    LET r == procs[p]
        user == getUserByTelegramId(r.caller) IN
    /\ At(p, "pt_getUser")
    /\ procs' =
         IF user = 0 THEN Answer(p, "USER_NOT_FOUND")
         ELSE IF users[user].is_blocked THEN Answer(p, "BLOCKED")
         ELSE [procs EXCEPT ![p].pc = "pt_settings", ![p].uid = user]
    /\ UNCHANGED dbVars

\* const settings = await getAppSettings(); if (settings.monetization_enabled)
ptSettings(p) ==
    /\ At(p, "pt_settings")
    /\ procs' = IF settings.monetization_enabled
                THEN Goto(p, "pt_stats") ELSE Goto(p, "pt_create")
    /\ UNCHANGED dbVars

\* const stats = await getDriverDailyStats(user.id)
ptStats(p) ==
    LET r == procs[p]
        stats == getDriverDailyStats(r.uid) IN
    /\ At(p, "pt_stats")
    /\ procs' = [procs EXCEPT ![p].pc = "pt_proof",
                              ![p].row.trips_count = stats.trips_count,
                              ![p].row.app_fee_total = stats.app_fee_total]
    /\ UNCHANGED dbVars

\* const hasProof = await hasDriverPaymentProofToday(user.id), and the decision
ptProof(p) ==
    LET r == procs[p] IN
    /\ At(p, "pt_proof")
    /\ procs' = IF GateDenies(r.row, hasDriverPaymentProofToday(r.uid))
                THEN Answer(p, "GATE_DENIED") ELSE Goto(p, "pt_create")
    /\ UNCHANGED dbVars

\* const trip = await createTrip({driverId: user.id, ...}); res.json({ trip })
ptCreate(p) ==
    LET r == procs[p] IN
    /\ At(p, "pt_create")
    /\ tripSeq' = tripSeq + 1
    /\ trips' = TripsWith(r.uid, r.row.departure_time, r.row.seats_total,
                          r.row.price_per_seat)
    /\ procs' = [Answer(p, "OK") EXCEPT ![p].tripId = tripSeq + 1]
    /\ UNCHANGED <<users, bookings, plans, inTx, now, settings, proofs, tz, undo>>

(***************************************************************************)
(* POST /api/driver/payment-proof and saveDriverPaymentProof.              *)
(***************************************************************************)
PendingProofs ==
    Cardinality({q \in Procs : procs[q].op = "paymentProof" /\ InFlight(q)})

paymentProof(p, telegramId) ==
    /\ Len(proofs) + PendingProofs < MaxProofs
    /\ Arrive(p, [Idle EXCEPT !.op = "paymentProof", !.pc = "pp_getUser",
                              !.caller = telegramId])

\* const user = await getUserByTelegramId(telegram_id)
ppGetUser(p) ==
    LET r == procs[p]
        user == getUserByTelegramId(r.caller) IN
    /\ At(p, "pp_getUser")
    /\ procs' =
         IF user = 0 THEN Answer(p, "USER_NOT_FOUND")
         ELSE [procs EXCEPT ![p].pc = "pp_save", ![p].uid = user]
    /\ UNCHANGED dbVars

\* INSERT INTO driver_payment_proofs (driver_id, ..., created_at)
\* VALUES (?, ..., datetime('now','localtime'))
saveDriverPaymentProof(driverId) ==
    proofs' = Append(proofs, [driver_id |-> driverId, created_at |-> LocalNow])

ppSave(p) ==
    /\ At(p, "pp_save")
    /\ saveDriverPaymentProof(procs[p].uid)
    /\ procs' = Answer(p, "OK")
    /\ UNCHANGED <<users, trips, tripSeq, bookings, plans, inTx, now, settings,
                   tz, undo>>

(***************************************************************************)
(* updateAppSettings({monetizationEnabled, paymentDetails}).  A boolean is *)
(* written "true" or "false"; Undefined is a value that was not given.     *)
(***************************************************************************)
Undefined == "undefined"

\* typeof monetizationEnabled === 'boolean'
\*   ? (monetizationEnabled ? 1 : 0) : current.monetization_enabled
NewMonetization(current, monetizationEnabled) ==
    IF monetizationEnabled = Undefined THEN current.monetization_enabled
    ELSE monetizationEnabled = "true"

\* typeof paymentDetails === 'string' ? paymentDetails : current.payment_details
NewDetails(current, paymentDetails) ==
    IF paymentDetails = Undefined THEN current.payment_details ELSE paymentDetails

\* UPDATE app_settings SET monetization_enabled = ?, payment_details = ?
\* WHERE id = 1
SettingsAfter(monetizationEnabled, paymentDetails) ==
    [monetization_enabled |-> NewMonetization(settings, monetizationEnabled),
     payment_details |-> NewDetails(settings, paymentDetails)]

updateAppSettings(monetizationEnabled, paymentDetails) ==
    /\ settings' = SettingsAfter(monetizationEnabled, paymentDetails)
    /\ UNCHANGED <<users, trips, tripSeq, bookings, plans, inTx, now, proofs,
                   tz, undo, procs>>

(***************************************************************************)
(* POST /api/admin/settings                                                *)
(***************************************************************************)
\* ADMIN_TELEGRAM_ID
AdminTg == 105

adminSettings(p, telegramId, monetizationBody, detailsBody) ==
    Arrive(p, [Idle EXCEPT !.op = "adminSettings", !.pc = "as_auth",
                           !.caller = telegramId,
                           !.row = [monetization_enabled |-> monetizationBody,
                                    payment_details |-> detailsBody]])

\* a check that lets every caller through
asAuthAnyCaller(p) ==
    /\ At(p, "as_auth")
    /\ procs' = Goto(p, "as_update")
    /\ UNCHANGED dbVars

\* if (String(telegram_id) !== String(ADMIN_TELEGRAM_ID)) return 403
asAuth(p) ==
    /\ At(p, "as_auth")
    /\ procs' = IF procs[p].caller # AdminTg
                THEN Answer(p, "FORBIDDEN") ELSE Goto(p, "as_update")
    /\ UNCHANGED dbVars

\* monetization_enabled === null ? undefined : !!monetization_enabled
\* (a field that the body does not have is undefined, and !!undefined is false)
MonetizationArg(body) ==
    IF body = "null" THEN Undefined
    ELSE IF body = "true" THEN "true" ELSE "false"

\* payment_details || ''
DetailsArg(body) == IF body = Undefined THEN "" ELSE body

\* const updated = await updateAppSettings({...}); res.json({ settings })
asUpdate(p) ==
    LET r == procs[p] IN
    /\ At(p, "as_update")
    /\ settings' = SettingsAfter(MonetizationArg(r.row.monetization_enabled),
                                 DetailsArg(r.row.payment_details))
    /\ procs' = Answer(p, "OK")
    /\ UNCHANGED <<users, trips, tripSeq, bookings, plans, inTx, now, proofs,
                   tz, undo>>

(***************************************************************************)
(* POST /api/admin/block-driver and setUserBlockedByTelegramId             *)
(***************************************************************************)
\* UPDATE users SET is_blocked = ? WHERE telegram_id = ?: the table after it
setUserBlockedByTelegramId(telegramId, blocked) ==
    [u \in UserIds |->
       IF users[u].telegram_id = telegramId
       THEN [users[u] EXCEPT !.is_blocked = blocked] ELSE users[u]]

blockDriver(p, telegramId, driverTelegramId, block) ==
    Arrive(p, [Idle EXCEPT !.op = "blockDriver", !.pc = "bd_auth",
                           !.caller = telegramId,
                           !.row = [driver_telegram_id |-> driverTelegramId,
                                    block |-> block]])

\* if (String(telegram_id) !== String(ADMIN_TELEGRAM_ID)) return 403
bdAuth(p) ==
    /\ At(p, "bd_auth")
    /\ procs' = IF procs[p].caller # AdminTg
                THEN Answer(p, "FORBIDDEN") ELSE Goto(p, "bd_update")
    /\ UNCHANGED dbVars

\* await setUserBlockedByTelegramId(driver_telegram_id, !!block)
bdUpdate(p) ==
    LET r == procs[p] IN
    /\ At(p, "bd_update")
    /\ users' = setUserBlockedByTelegramId(r.row.driver_telegram_id, r.row.block)
    /\ procs' = Answer(p, "OK")
    /\ UNCHANGED <<trips, tripSeq, bookings, plans, inTx, now, settings, proofs,
                   tz, undo>>

(***************************************************************************)
(* upsertUserFromTelegram(tgUser): a known user keeps the counter and the  *)
(* flag, a new one gets the columns' defaults                              *)
(***************************************************************************)
\* the row of INSERT INTO users (telegram_id, first_name, ...): the other
\* columns take their defaults
NewUser(telegramId, firstName) ==
    [telegram_id |-> telegramId, no_show_count |-> 0, is_blocked |-> FALSE,
     first_name |-> firstName, car_plate |-> ""]

\* UPDATE users SET first_name = ?, ... WHERE telegram_id = ?
RefreshedUsers(telegramId, firstName) ==
    [u \in UserIds |->
       IF users[u].telegram_id = telegramId
       THEN [users[u] EXCEPT !.first_name = firstName] ELSE users[u]]

\* the whole call, when no other request runs during it
upsertUserFromTelegram(telegramId, firstName) ==
    /\ users' =
         IF getUserByTelegramId(telegramId) # 0
         THEN RefreshedUsers(telegramId, firstName)
         ELSE Append(users, NewUser(telegramId, firstName))
    /\ UNCHANGED <<trips, tripSeq, bookings, plans, inTx, now, settings, proofs,
                   tz, undo, procs>>

(***************************************************************************)
(* POST /api/init-user: upsertUserFromTelegram statement by statement.     *)
(***************************************************************************)
initUser(p, telegramId, firstName) ==
    Arrive(p, [Idle EXCEPT !.op = "initUser", !.pc = "iu_get",
                           !.caller = telegramId,
                           !.row = [first_name |-> firstName]])

\* const existing = await getAsync(SELECT * FROM users WHERE telegram_id = ?)
iuGet(p) ==
    /\ At(p, "iu_get")
    /\ procs' = IF getUserByTelegramId(procs[p].caller) # 0
                THEN Goto(p, "iu_update") ELSE Goto(p, "iu_insert")
    /\ UNCHANGED dbVars

\* if (existing): the UPDATE of the display columns, then the row is returned
iuUpdate(p) ==
    LET r == procs[p] IN
    /\ At(p, "iu_update")
    /\ users' = RefreshedUsers(r.caller, r.row.first_name)
    /\ procs' = [Answer(p, "OK") EXCEPT ![p].uid = getUserByTelegramId(r.caller)]
    /\ UNCHANGED <<trips, tripSeq, bookings, plans, inTx, now, settings, proofs,
                   tz, undo>>

\* otherwise the INSERT: telegram_id is UNIQUE, so the INSERT of an id that
\* is in the table by now fails and the call rejects with that error
iuInsert(p) ==
    LET r == procs[p] IN
    /\ At(p, "iu_insert")
    /\ IF getUserByTelegramId(r.caller) # 0
       THEN /\ procs' = Answer(p, "CONSTRAINT")
            /\ UNCHANGED users
       ELSE /\ users' = Append(users, NewUser(r.caller, r.row.first_name))
            /\ procs' = [Answer(p, "OK") EXCEPT ![p].uid = Len(users) + 1]
    /\ UNCHANGED <<trips, tripSeq, bookings, plans, inTx, now, settings, proofs,
                   tz, undo>>

(***************************************************************************)
(* updateDriverCarProfile(telegramId, {carMake, carColor, carPlate})       *)
(***************************************************************************)
updateDriverCarProfile(p, telegramId, carPlate) ==
    Arrive(p, [Idle EXCEPT !.op = "updateDriverCarProfile", !.pc = "dc_getUser",
                           !.caller = telegramId,
                           !.row = [car_plate |-> carPlate]])

\* const user = await getUserByTelegramId(telegramId)
dcGetUser(p) ==
    LET user == getUserByTelegramId(procs[p].caller) IN
    /\ At(p, "dc_getUser")
    /\ procs' = IF user = 0 THEN Answer(p, "USER_NOT_FOUND")
                ELSE [procs EXCEPT ![p].pc = "dc_update", ![p].uid = user]
    /\ UNCHANGED dbVars

\* UPDATE users SET car_make = ?, car_color = ?, car_plate = ? WHERE id = ?
dcUpdate(p) ==
    LET r == procs[p] IN
    /\ At(p, "dc_update")
    /\ users' = [users EXCEPT ![r.uid].car_plate = r.row.car_plate]
    /\ procs' = Answer(p, "OK")
    /\ UNCHANGED <<trips, tripSeq, bookings, plans, inTx, now, settings, proofs,
                   tz, undo>>

(***************************************************************************)
(* createBooking when a statement of its transaction fails in the store.   *)
(***************************************************************************)
\* db.run('ROLLBACK'): the tables are again what they were at BEGIN
Rollback ==
    /\ users' = undo.users
    /\ trips' = undo.trips
    /\ tripSeq' = undo.tripSeq
    /\ bookings' = undo.bookings
    /\ plans' = undo.plans
    /\ settings' = undo.settings
    /\ proofs' = undo.proofs
    /\ inTx' = FALSE
    /\ undo' = NoRow

\* if (errBegin) return reject(errBegin)
cbBeginFails(p) ==
    /\ At(p, "cb_begin")
    /\ procs' = Answer(p, "STORE_ERROR")
    /\ UNCHANGED dbVars

\* if (errInsert) { db.run('ROLLBACK'); return reject(errInsert); }
cbInsertFails(p) ==
    /\ At(p, "cb_insert")
    /\ Rollback
    /\ procs' = Answer(p, "STORE_ERROR")
    /\ UNCHANGED <<now, tz>>

\* if (errUpdate) { db.run('ROLLBACK'); return reject(errUpdate); }
cbUpdateFails(p) ==
    /\ At(p, "cb_update")
    /\ Rollback
    /\ procs' = Answer(p, "STORE_ERROR")
    /\ UNCHANGED <<now, tz>>

\* if (errCommit) return reject(errCommit): no ROLLBACK is sent. The store
\* either keeps the transaction open with its writes in place (SQLITE_BUSY)
\* or has rolled it back by itself (SQLITE_FULL, SQLITE_IOERR, ...).
cbCommitFails(p) ==
    /\ At(p, "cb_commit")
    /\ procs' = Answer(p, "STORE_ERROR")
    /\ \/ UNCHANGED dbVars
       \/ Rollback /\ UNCHANGED <<now, tz>>

(***************************************************************************)
(* markBookingNoShow when a statement of its transaction fails.            *)
(***************************************************************************)
\* if (errBegin) return reject(errBegin)
nsBeginFails(p) ==
    /\ At(p, "ns_begin")
    /\ procs' = Answer(p, "STORE_ERROR")
    /\ UNCHANGED dbVars

\* if (errUpd) { db.run('ROLLBACK'); return reject(errUpd); }
nsStatusFails(p) ==
    /\ At(p, "ns_status")
    /\ Rollback
    /\ procs' = Answer(p, "STORE_ERROR")
    /\ UNCHANGED <<now, tz>>

\* if (errUser) { db.run('ROLLBACK'); return reject(errUser); }
nsUserFails(p) ==
    /\ At(p, "ns_user")
    /\ Rollback
    /\ procs' = Answer(p, "STORE_ERROR")
    /\ UNCHANGED <<now, tz>>

\* if (errCommit) return reject(errCommit): no ROLLBACK is sent; the store
\* keeps the transaction open or has rolled it back by itself
nsCommitFails(p) ==
    /\ At(p, "ns_commit")
    /\ procs' = Answer(p, "STORE_ERROR")
    /\ \/ UNCHANGED dbVars
       \/ Rollback /\ UNCHANGED <<now, tz>>

StepNoShowFault ==
    \E p \in Procs :
        nsBeginFails(p) \/ nsStatusFails(p) \/ nsUserFails(p) \/ nsCommitFails(p)

(***************************************************************************)
(* cancelBookingByPassenger and deleteTripByDriver when a statement of     *)
(* their transaction fails.                                                *)
(***************************************************************************)
\* if (errBegin) return reject(errBegin)
cnBeginFails(p) ==
    /\ At(p, "cn_begin")
    /\ procs' = Answer(p, "STORE_ERROR")
    /\ UNCHANGED dbVars

\* if (errUpd) { db.run('ROLLBACK'); return reject(errUpd); }
cnStatusFails(p) ==
    /\ At(p, "cn_status")
    /\ Rollback
    /\ procs' = Answer(p, "STORE_ERROR")
    /\ UNCHANGED <<now, tz>>

\* if (errTrip) { db.run('ROLLBACK'); return reject(errTrip); }
cnSeatsFails(p) ==
    /\ At(p, "cn_seats")
    /\ Rollback
    /\ procs' = Answer(p, "STORE_ERROR")
    /\ UNCHANGED <<now, tz>>

\* if (errCommit) return reject(errCommit): no ROLLBACK is sent
cnCommitFails(p) ==
    /\ At(p, "cn_commit")
    /\ procs' = Answer(p, "STORE_ERROR")
    /\ \/ UNCHANGED dbVars
       \/ Rollback /\ UNCHANGED <<now, tz>>

StepCancelFault ==
    \E p \in Procs :
        cnBeginFails(p) \/ cnStatusFails(p) \/ cnSeatsFails(p) \/ cnCommitFails(p)

\* if (errBegin) return reject(errBegin)
dlBeginFails(p) ==
    /\ At(p, "dl_begin")
    /\ procs' = Answer(p, "STORE_ERROR")
    /\ UNCHANGED dbVars

\* if (errDelTrip) { db.run('ROLLBACK'); return reject(errDelTrip); }
dlDeleteFails(p) ==
    /\ At(p, "dl_delete")
    /\ Rollback
    /\ procs' = Answer(p, "STORE_ERROR")
    /\ UNCHANGED <<now, tz>>

\* if (errCommit) return reject(errCommit): no ROLLBACK is sent
dlCommitFails(p) ==
    /\ At(p, "dl_commit")
    /\ procs' = Answer(p, "STORE_ERROR")
    /\ \/ UNCHANGED dbVars
       \/ Rollback /\ UNCHANGED <<now, tz>>

StepDeleteFault ==
    \E p \in Procs : dlBeginFails(p) \/ dlDeleteFails(p) \/ dlCommitFails(p)

StepFault ==
    \E p \in Procs :
        cbBeginFails(p) \/ cbInsertFails(p) \/ cbUpdateFails(p) \/ cbCommitFails(p)

(***************************************************************************)
(* SELECT b.*, t.* FROM bookings b JOIN trips t ON t.id = b.trip_id        *)
(* WHERE b.id = ?: the row read first by cancelBookingByPassenger and      *)
(* markBookingNoShow; no row when the booking or its trip is missing       *)
(***************************************************************************)
BookingWithTrip(bookingId) ==
    IF bookingId \in BookingIds /\ bookings[bookingId].trip_id \in DOMAIN trips
    THEN LET b == bookings[bookingId]
             t == trips[b.trip_id] IN
         [id |-> bookingId, trip_id |-> b.trip_id, passenger_id |-> b.passenger_id,
          seats_booked |-> b.seats_booked, status |-> b.status,
          departure_time |-> t.departure_time, driver_id |-> t.driver_id,
          seats_total |-> t.seats_total, seats_available |-> t.seats_available]
    ELSE NoRow

\* the columns of the row that the statements after the checks still use
Kept(row) ==
    [trip_id |-> row.trip_id, passenger_id |-> row.passenger_id,
     seats_booked |-> row.seats_booked, status |-> row.status]

(***************************************************************************)
(* cancelBookingByPassenger({bookingId, passengerId})                      *)
(***************************************************************************)
\* a status check that lets a cancelled booking be cancelled again
CancelStatusBadLenient(row) == row.status = "no_show"

\* row.status !== 'booked' rejects with BAD_STATUS
CancelStatusBad(row) == row.status # "booked"

\* a restore that gives back one seat whatever the booking held
SeatsAfterCancelOne(seatsAvailable, seatsBooked) == seatsAvailable + 1

\* UPDATE trips SET seats_available = seats_available + ? WHERE id = ?
SeatsAfterCancel(seatsAvailable, seatsBooked) == seatsAvailable + seatsBooked

cancelBookingByPassenger(p, bookingId, passengerId) ==
    Arrive(p, [Idle EXCEPT !.op = "cancelBookingByPassenger", !.pc = "cn_get",
                           !.bookingId = bookingId, !.caller = passengerId])

\* the db.get of the joined row and the checks of its callback
cnGet(p) ==
    LET r == procs[p]
        row == BookingWithTrip(r.bookingId) IN
    /\ At(p, "cn_get")
    /\ procs' =
         IF row = NoRow THEN Answer(p, "BOOKING_NOT_FOUND")
         ELSE IF row.passenger_id # r.caller THEN Answer(p, "FORBIDDEN")
         ELSE IF CancelStatusBad(row) THEN Answer(p, "BAD_STATUS")
         ELSE IF TooLate(row.departure_time, now) THEN Answer(p, "TOO_LATE")
         ELSE [procs EXCEPT ![p].pc = "cn_begin", ![p].row = Kept(row)]
    /\ UNCHANGED dbVars

cnBegin(p) ==
    /\ Begin(p, "cn_begin", "cn_status")
    /\ UNCHANGED <<users, trips, tripSeq, bookings, plans,
                 now, settings, proofs, tz>>

\* UPDATE bookings SET status = 'cancelled' WHERE id = ?
cnStatus(p) ==
    LET r == procs[p] IN
    /\ At(p, "cn_status")
    /\ bookings' = [bookings EXCEPT ![r.bookingId].status = "cancelled"]
    /\ procs' = Goto(p, "cn_seats")
    /\ UNCHANGED <<users, trips, tripSeq, plans, inTx, now,
                 settings, proofs, tz, undo>>

\* UPDATE trips SET seats_available = seats_available + ? WHERE id = ?
cnSeats(p) ==
    LET r == procs[p] IN
    /\ At(p, "cn_seats")
    /\ trips' = IF r.row.trip_id \in DOMAIN trips
                THEN [trips EXCEPT ![r.row.trip_id].seats_available =
                        SeatsAfterCancel(@, r.row.seats_booked)]
                ELSE trips
    /\ procs' = Goto(p, "cn_commit")
    /\ UNCHANGED <<users, tripSeq, bookings, plans, inTx, now,
                 settings, proofs, tz, undo>>

\* COMMIT, then resolve(row)
cnCommit(p) ==
    /\ Commit(p, "cn_commit", "done")
    /\ procs' = Answer(p, "OK")
    /\ UNCHANGED <<users, trips, tripSeq, bookings, plans,
                 now, settings, proofs, tz>>

(***************************************************************************)
(* markBookingNoShow({bookingId, driverId})                                *)
(***************************************************************************)
\* UPDATE users SET no_show_count = no_show_count + 1 WHERE id = ?
NoShowCountAfter(noShowCount) == noShowCount + 1

\* the status written by UPDATE bookings SET status = 'no_show' WHERE id = ?
\* (the statement has no condition on the status it replaces)
NoShowStatus(status) == "no_show"

\* the increments a markBookingNoShow in flight will still make
PendingNoShows ==
    Cardinality({q \in Procs : procs[q].pc \in
                    {"ns_get", "ns_begin", "ns_status", "ns_user"}})

markBookingNoShow(p, bookingId, driverId) ==
    /\ \A u \in UserIds : users[u].no_show_count + PendingNoShows < MaxNoShow
    /\ Arrive(p, [Idle EXCEPT !.op = "markBookingNoShow", !.pc = "ns_get",
                              !.bookingId = bookingId, !.caller = driverId])

\* a first step that does not compare the caller with the trip's driver
nsGetAnyCaller(p) ==
    LET r == procs[p]
        row == BookingWithTrip(r.bookingId) IN
    /\ At(p, "ns_get")
    /\ procs' =
         IF row = NoRow THEN Answer(p, "BOOKING_NOT_FOUND")
         ELSE [procs EXCEPT ![p].pc = "ns_begin", ![p].row = Kept(row)]
    /\ UNCHANGED dbVars

\* the db.get of the joined row and the checks of its callback
nsGet(p) ==
    LET r == procs[p]
        row == BookingWithTrip(r.bookingId) IN
    /\ At(p, "ns_get")
    /\ procs' =
         IF row = NoRow THEN Answer(p, "BOOKING_NOT_FOUND")
         ELSE IF row.driver_id # r.caller THEN Answer(p, "FORBIDDEN")
         ELSE [procs EXCEPT ![p].pc = "ns_begin", ![p].row = Kept(row)]
    /\ UNCHANGED dbVars

nsBegin(p) ==
    /\ Begin(p, "ns_begin", "ns_status")
    /\ UNCHANGED <<users, trips, tripSeq, bookings, plans,
                 now, settings, proofs, tz>>

\* a status update that also gives the booking's seats back to the trip
nsStatusRestoring(p) ==
    LET r == procs[p] IN
    /\ At(p, "ns_status")
    /\ bookings' = [bookings EXCEPT ![r.bookingId].status = "no_show"]
    /\ trips' = [trips EXCEPT ![r.row.trip_id].seats_available =
                    @ + r.row.seats_booked]
    /\ procs' = Goto(p, "ns_user")
    /\ UNCHANGED <<users, tripSeq, plans, inTx, now, settings, proofs, tz, undo>>

\* UPDATE bookings SET status = 'no_show' WHERE id = ?
nsStatus(p) ==
    LET r == procs[p] IN
    /\ At(p, "ns_status")
    /\ bookings' = [bookings EXCEPT ![r.bookingId].status = NoShowStatus(@)]
    /\ procs' = Goto(p, "ns_user")
    /\ UNCHANGED <<users, trips, tripSeq, plans, inTx, now,
                 settings, proofs, tz, undo>>

nsUser(p) ==
    LET r == procs[p] IN
    /\ At(p, "ns_user")
    /\ users' = [users EXCEPT ![r.row.passenger_id].no_show_count =
                   NoShowCountAfter(@)]
    /\ procs' = Goto(p, "ns_commit")
    /\ UNCHANGED <<trips, tripSeq, bookings, plans, inTx, now,
                 settings, proofs, tz, undo>>

\* COMMIT, then resolve()
nsCommit(p) ==
    /\ Commit(p, "ns_commit", "done")
    /\ procs' = Answer(p, "OK")
    /\ UNCHANGED <<users, trips, tripSeq, bookings, plans,
                 now, settings, proofs, tz>>

(***************************************************************************)
(* deleteTripByDriver(tripId, driverId)                                    *)
(***************************************************************************)
\* SELECT COUNT(*) AS cnt FROM bookings WHERE trip_id = ?
BookingsCount(tripId) ==
    Cardinality({b \in BookingIds : bookings[b].trip_id = tripId})

\* cnt > 0 rejects with HAS_BOOKINGS
HasBookings(cnt) == cnt > 0

deleteTripByDriver(p, tripId, driverId) ==
    Arrive(p, [Idle EXCEPT !.op = "deleteTripByDriver", !.pc = "dl_getTrip",
                           !.tripId = tripId, !.caller = driverId])

dlGetTrip(p) ==
    LET r == procs[p] IN
    /\ At(p, "dl_getTrip")
    /\ procs' =
         IF r.tripId \notin DOMAIN trips THEN Answer(p, "TRIP_NOT_FOUND")
         ELSE IF trips[r.tripId].driver_id # r.caller THEN Answer(p, "FORBIDDEN")
         ELSE IF TooLate(trips[r.tripId].departure_time, now)
              THEN Answer(p, "TOO_LATE")
         ELSE Goto(p, "dl_count")
    /\ UNCHANGED dbVars

dlCount(p) ==
    LET r == procs[p] IN
    /\ At(p, "dl_count")
    /\ procs' = IF HasBookings(BookingsCount(r.tripId))
                THEN Answer(p, "HAS_BOOKINGS")
                ELSE Goto(p, "dl_begin")
    /\ UNCHANGED dbVars

dlBegin(p) ==
    /\ Begin(p, "dl_begin", "dl_delete")
    /\ UNCHANGED <<users, trips, tripSeq, bookings, plans,
                 now, settings, proofs, tz>>

\* DELETE FROM trips WHERE id = ?
dlDelete(p) ==
    LET r == procs[p] IN
    /\ At(p, "dl_delete")
    /\ trips' = [i \in DOMAIN trips \ {r.tripId} |-> trips[i]]
    /\ procs' = Goto(p, "dl_commit")
    /\ UNCHANGED <<users, tripSeq, bookings, plans, inTx, now,
                 settings, proofs, tz, undo>>

\* COMMIT, then resolve(trip)
dlCommit(p) ==
    /\ Commit(p, "dl_commit", "done")
    /\ procs' = Answer(p, "OK")
    /\ UNCHANGED <<users, trips, tripSeq, bookings, plans,
                 now, settings, proofs, tz>>

(***************************************************************************)
(* Passenger plans (index.js).  POST /api/passenger/plans inserts a plan.  *)
(***************************************************************************)
\* a column that holds NULL (taken_at TEXT, until the plan is taken)
Null == -999

NewPlan(passengerId, desiredTime) ==
    [passenger_id |-> passengerId, desired_time |-> desiredTime,
     status |-> "active", driver_id |-> 0, taken_at |-> Null]

createPlan(passengerTg, desiredTime) ==
    /\ Len(plans) < MaxPlans
    /\ getUserByTelegramId(passengerTg) # 0
    /\ plans' = Append(plans, NewPlan(getUserByTelegramId(passengerTg), desiredTime))
    /\ UNCHANGED <<users, trips, tripSeq, bookings, inTx, now,
                 procs, settings, proofs, tz, undo>>

\* a plan request arrives; its slot is not used again
ArriveOnce(p, rec) ==
    /\ procs[p].pc = "idle"
    /\ \A q \in PlanProcs : q < p => procs[q].pc # "idle"
    /\ procs' = [procs EXCEPT ![p] = rec]
    /\ UNCHANGED dbVars

\* the plan is there, active, and its desired time is still ahead
PlanOpen(planId) ==
    /\ planId \in PlanIds
    /\ plans[planId].status = "active"
    /\ ~TooLate(plans[planId].desired_time, now)

(***************************************************************************)
(* POST /api/driver/passenger-plans/take                                   *)
(***************************************************************************)
\* claiming UPDATEs whose WHERE clause lacks the condition on the status
TakeIfNotCancelled(plan) == plan.status # "cancelled"
TakeAlways(plan) == TRUE

\* the WHERE clause of the claiming UPDATE: id = ? AND status = 'active'
TakeMatches(plan) == plan.status = "active"

\* `early` records that the request arrived while the plan was open
takePlan(p, planId, driverTg) ==
    ArriveOnce(p, [Idle EXCEPT !.op = "takePlan", !.pc = "tk_getUser",
                               !.planId = planId, !.caller = driverTg,
                               !.early = PlanOpen(planId)])

\* const driver = await getUserByTelegramId(telegram_id)
tkGetUser(p) ==
    LET r == procs[p]
        driver == getUserByTelegramId(r.caller) IN
    /\ At(p, "tk_getUser")
    /\ procs' =
         IF driver = 0 THEN Answer(p, "DRIVER_NOT_FOUND")
         ELSE IF users[driver].is_blocked THEN Answer(p, "BLOCKED")
         ELSE [procs EXCEPT ![p].pc = "tk_getPlan", ![p].uid = driver]
    /\ UNCHANGED dbVars

\* a precondition check that does not look at the plan's status
tkGetPlanAnyStatus(p) ==
    LET r == procs[p] IN
    /\ At(p, "tk_getPlan")
    /\ procs' =
         IF r.planId \notin PlanIds THEN Answer(p, "PLAN_NOT_FOUND")
         ELSE IF TooLate(plans[r.planId].desired_time, now) THEN Answer(p, "TOO_LATE")
         ELSE Goto(p, "tk_update")
    /\ UNCHANGED dbVars

\* const plan = await dbGet(SELECT * FROM passenger_plans WHERE id = ?)
tkGetPlan(p) ==
    LET r == procs[p] IN
    /\ At(p, "tk_getPlan")
    /\ procs' =
         IF r.planId \notin PlanIds THEN Answer(p, "PLAN_NOT_FOUND")
         ELSE IF plans[r.planId].status # "active" THEN Answer(p, "PLAN_UNAVAILABLE")
         ELSE IF TooLate(plans[r.planId].desired_time, now) THEN Answer(p, "TOO_LATE")
         ELSE Goto(p, "tk_update")
    /\ UNCHANGED dbVars

\* UPDATE passenger_plans SET status = 'taken', driver_id = ?, taken_at = ...
\* WHERE id = ? AND status = 'active'; upd.changes === 0 answers "already taken"
tkUpdate(p) ==
    LET r == procs[p] IN
    /\ At(p, "tk_update")
    /\ IF TakeMatches(plans[r.planId])
       THEN /\ plans' = [plans EXCEPT ![r.planId].status = "taken",
                                      ![r.planId].driver_id = r.uid,
                                      ![r.planId].taken_at = LocalNow]
            /\ procs' = Goto(p, "tk_full")
       ELSE /\ plans' = plans
            /\ procs' = Answer(p, "ALREADY_TAKEN")
    /\ UNCHANGED <<users, trips, tripSeq, bookings, inTx, now,
                 settings, proofs, tz, undo>>

\* the read of the taken plan for the notifications, then { success: true }
tkFull(p) ==
    /\ At(p, "tk_full")
    /\ procs' = Answer(p, "OK")
    /\ UNCHANGED dbVars

(***************************************************************************)
(* POST /api/passenger/plans/cancel                                        *)
(***************************************************************************)
cancelPlan(p, planId, passengerTg) ==
    ArriveOnce(p, [Idle EXCEPT !.op = "cancelPlan", !.pc = "cp_getUser",
                               !.planId = planId, !.caller = passengerTg])

cpGetUser(p) ==
    LET r == procs[p]
        passenger == getUserByTelegramId(r.caller) IN
    /\ At(p, "cp_getUser")
    /\ procs' =
         IF passenger = 0 THEN Answer(p, "PASSENGER_NOT_FOUND")
         ELSE [procs EXCEPT ![p].pc = "cp_getPlan", ![p].uid = passenger]
    /\ UNCHANGED dbVars

cpGetPlan(p) ==
    LET r == procs[p] IN
    /\ At(p, "cp_getPlan")
    /\ procs' =
         IF r.planId \notin PlanIds THEN Answer(p, "PLAN_NOT_FOUND")
         ELSE IF plans[r.planId].passenger_id # r.uid THEN Answer(p, "FORBIDDEN")
         ELSE IF plans[r.planId].status # "active" THEN Answer(p, "BAD_STATUS")
         ELSE IF TooLate(plans[r.planId].desired_time, now) THEN Answer(p, "TOO_LATE")
         ELSE Goto(p, "cp_update")
    /\ UNCHANGED dbVars

\* UPDATE passenger_plans SET status = 'cancelled' WHERE id = ?
cpUpdate(p) ==
    LET r == procs[p] IN
    /\ At(p, "cp_update")
    /\ plans' = [plans EXCEPT ![r.planId].status = "cancelled"]
    /\ procs' = Answer(p, "OK")
    /\ UNCHANGED <<users, trips, tripSeq, bookings, inTx, now,
                 settings, proofs, tz, undo>>

PlanTakers == {101, 102, 103, UnknownTg}
PlanOwners == {102, 103}

PostPlan ==
    \E tg \in PlanOwners, t \in DepartureTimes : createPlan(tg, t)

ArrivePlan ==
    \E p \in PlanProcs :
        \/ \E pl \in 1..MaxPlans, tg \in PlanTakers : takePlan(p, pl, tg)
        \/ \E pl \in 1..MaxPlans, tg \in PlanOwners : cancelPlan(p, pl, tg)

StepPlan ==
    \E p \in PlanProcs :
        \/ tkGetUser(p) \/ tkGetPlan(p) \/ tkUpdate(p) \/ tkFull(p)
        \/ cpGetUser(p) \/ cpGetPlan(p) \/ cpUpdate(p)

(***************************************************************************)
(* The routes after the core mutation: the counterpart lookup, the         *)
(* messages, the reply (POST /api/bookings, /api/bookings/cancel,          *)
(* /api/driver/passenger-plans/take).                                      *)
(***************************************************************************)
\* createBooking resolves to its route: COMMIT, SELECT the booking, resolve
cbResolve(p) ==
    /\ Commit(p, "cb_commit", "bk_lookup")
    /\ procs' = Goto(p, "bk_lookup")
    /\ UNCHANGED <<users, trips, tripSeq, bookings, plans,
                 now, settings, proofs, tz>>

\* cancelBookingByPassenger resolves to its route: COMMIT, resolve(row)
cnResolve(p) ==
    /\ Commit(p, "cn_commit", "bk_lookup")
    /\ procs' = Goto(p, "bk_lookup")
    /\ UNCHANGED <<users, trips, tripSeq, bookings, plans,
                 now, settings, proofs, tz>>

\* the trip that the route looks up with its driver
LookedUpTrip(r) == IF r.op = "createBooking" THEN r.tripId ELSE r.row.trip_id

\* SELECT t.*, u.telegram_id AS driver_telegram_id, ... FROM trips t
\* JOIN users u ON u.id = t.driver_id WHERE t.id = ?
getTripWithDriver(tripId) ==
    IF tripId \in DOMAIN trips /\ trips[tripId].driver_id \in UserIds
    THEN trips[tripId] ELSE NoRow

\* const tripFull = await getTripWithDriver(...); with no row there is
\* nobody to notify and the route replies at once
bkLookup(p) ==
    /\ At(p, "bk_lookup")
    /\ procs' = IF getTripWithDriver(LookedUpTrip(procs[p])) = NoRow
                THEN Answer(p, "OK") ELSE Goto(p, "bk_send")
    /\ UNCHANGED dbVars

\* the lookup rejects (a store error): the route's catch replies 500
bkLookupFails(p) ==
    /\ At(p, "bk_lookup")
    /\ procs' = Answer(p, "INTERNAL_ERROR")
    /\ UNCHANGED dbVars

\* bot.telegram.sendMessage(...).catch(log), then res.json(...)
bkSend(p) ==
    /\ At(p, "bk_send")
    /\ procs' = Answer(p, "OK")
    /\ UNCHANGED dbVars

\* sendMessage rejects: .catch logs it, and the route replies all the same
bkSendFails(p) ==
    /\ At(p, "bk_send")
    /\ procs' = Answer(p, "OK")
    /\ UNCHANGED dbVars

\* const full = await dbGet(SELECT p.*, ... WHERE p.id = ?) rejects (a store
\* error) after the plan was taken: the route's catch replies 500
tkFullFails(p) ==
    /\ At(p, "tk_full")
    /\ procs' = Answer(p, "INTERNAL_ERROR")
    /\ UNCHANGED dbVars

(***************************************************************************)
(* The seat-accounting engine: requests arrive, statements execute.        *)
(***************************************************************************)
\* the inputs of a run: who books, who cancels, who calls the driver's
\* operations, and the seat counts asked for and offered
WideInputs ==
    [passengerTg |-> {102, 103, UnknownTg}, cancellers |-> {2, 3},
     driverCallers |-> {1, 2}, seats |-> 0..MaxSeats, totals |-> 1..MaxSeats,
     prices |-> {10}]
NarrowInputs ==
    [passengerTg |-> {102}, cancellers |-> {2},
     driverCallers |-> {1}, seats |-> 1..(MaxSeats - 1), totals |-> 1..(MaxSeats - 1),
     prices |-> {10}]

\* inputs that count seats in parts of a seat, WholeSeat parts to the seat:
\* trips offer whole seats, requests ask for any number of parts, or for
\* something that is no number
PartInputs ==
    [passengerTg |-> {102}, cancellers |-> {2}, driverCallers |-> {1},
     seats |-> {NotANumber, -WholeSeat, 0, 1, WholeSeat, WholeSeat + 1},
     totals |-> {WholeSeat, 2 * WholeSeat}, prices |-> {0}]

\* n parts are a whole number of seats
IsWholeSeats(n) == n % WholeSeat = 0

ArriveBooking(in) ==
    \E p \in Procs :
        \/ \E t \in TripIds, tg \in in.passengerTg, n \in in.seats :
               createBooking(p, t, tg, n)
        \/ \E b \in 1..MaxBookings, u \in in.cancellers :
               cancelBookingByPassenger(p, b, u)
        \/ \E b \in 1..MaxBookings, u \in in.driverCallers :
               markBookingNoShow(p, b, u)
        \/ \E t \in TripIds, u \in in.driverCallers : deleteTripByDriver(p, t, u)

StepBooking ==
    \E p \in Procs :
        \/ cbGetTrip(p) \/ cbGetUser(p) \/ cbBegin(p) \/ cbInsert(p)
        \/ cbUpdate(p) \/ cbCommit(p)
        \/ cnGet(p) \/ cnBegin(p) \/ cnStatus(p) \/ cnSeats(p) \/ cnCommit(p)
        \/ nsGet(p) \/ nsBegin(p) \/ nsStatus(p) \/ nsUser(p) \/ nsCommit(p)
        \/ dlGetTrip(p) \/ dlCount(p) \/ dlBegin(p) \/ dlDelete(p) \/ dlCommit(p)

PostTrip(in) ==
    \E d \in DriverIds, t \in DepartureTimes, s \in in.totals, c \in in.prices :
        createTrip(d, t, s, c)

NoneInFlight == \A p \in Procs : Free(p)

\* requests overlap: a request may arrive while others are in flight
Next ==
    \/ Tick
    \/ PostTrip(NarrowInputs)
    \/ ArriveBooking(NarrowInputs)
    \/ StepBooking

Spec == Init /\ [][Next]_vars

\* one request at a time: a request arrives when no other is in flight
NextSeq ==
    \/ Tick
    \/ PostTrip(WideInputs)
    \/ NoneInFlight /\ ArriveBooking(WideInputs)
    \/ StepBooking

SpecSeq == Init /\ [][NextSeq]_vars

\* one request at a time, seats counted in parts of a seat
NextParts ==
    \/ Tick
    \/ PostTrip(PartInputs)
    \/ NoneInFlight /\ ArriveBooking(PartInputs)
    \/ StepBooking

SpecParts == Init /\ [][NextParts]_vars

\* one request at a time, and the store may fail any statement of the
\* transaction of a core operation
NextFault ==
    \/ Tick
    \/ NoneInFlight /\ PostTrip(NarrowInputs)
    \/ NoneInFlight /\ ArriveBooking(NarrowInputs)
    \/ StepBooking
    \/ StepFault
    \/ StepNoShowFault
    \/ StepCancelFault
    \/ StepDeleteFault

SpecFault == Init /\ [][NextFault]_vars

\* the server's time zones: hours east of UTC, in ticks
Zones == (-MaxZone)..MaxZone

InitGate == InitTables /\ tz \in Zones

GateInputs ==
    [passengerTg |-> {102}, cancellers |-> {2}, driverTg |-> {101, 103},
     seats |-> {1}, totals |-> {2}, prices |-> {0, 10}, departures |-> {NaT}]

ArriveGate(in) ==
    \E p \in Procs :
        \/ \E tg \in in.driverTg, d \in in.departures, s \in in.totals,
              c \in in.prices : postTrip(p, tg, d, s, c)
        \/ \E tg \in in.driverTg : paymentProof(p, tg)
        \/ \E t \in 1..MaxGateTrips, tg \in in.passengerTg, n \in in.seats :
               createBooking(p, t, tg, n)
        \/ \E b \in 1..MaxBookings, u \in in.cancellers :
               cancelBookingByPassenger(p, b, u)

StepGate ==
    \E p \in Procs :
        \/ ptGetUser(p) \/ ptSettings(p) \/ ptStats(p) \/ ptProof(p) \/ ptCreate(p)
        \/ ppGetUser(p) \/ ppSave(p)
        \/ cbGetTrip(p) \/ cbGetUser(p) \/ cbBegin(p) \/ cbInsert(p)
        \/ cbUpdate(p) \/ cbCommit(p)
        \/ cnGet(p) \/ cnBegin(p) \/ cnStatus(p) \/ cnSeats(p) \/ cnCommit(p)

\* the trip gate: one request at a time, the clock moves between requests,
\* the administrator switches monetization between requests
NextGate ==
    \/ NoneInFlight /\ TickTo(MaxGateTime)
    \/ NoneInFlight /\ \E f \in {"true", "false"} : updateAppSettings(f, Undefined)
    \/ NoneInFlight /\ ArriveGate(GateInputs)
    \/ StepGate

SpecGate == InitGate /\ [][NextGate]_vars

\* the three routes that notify, one request at a time: the lookup and the
\* send may fail
ArriveNotify ==
    \/ \E p \in Procs :
          \/ \E t \in TripIds, tg \in NarrowInputs.passengerTg,
                n \in NarrowInputs.seats : createBooking(p, t, tg, n)
          \/ \E b \in 1..MaxBookings, u \in NarrowInputs.cancellers :
                 cancelBookingByPassenger(p, b, u)
    \/ \E p \in PlanProcs, pl \in 1..MaxPlans, tg \in PlanTakers : takePlan(p, pl, tg)

StepNotify ==
    \E p \in PlanProcs :
        \/ cbGetTrip(p) \/ cbGetUser(p) \/ cbBegin(p) \/ cbInsert(p)
        \/ cbUpdate(p) \/ cbResolve(p)
        \/ cnGet(p) \/ cnBegin(p) \/ cnStatus(p) \/ cnSeats(p) \/ cnResolve(p)
        \/ bkLookup(p) \/ bkLookupFails(p) \/ bkSend(p) \/ bkSendFails(p)
        \/ tkGetUser(p) \/ tkGetPlan(p) \/ tkUpdate(p) \/ tkFull(p)
        \/ tkFullFails(p)

AllAnswered == \A p \in PlanProcs : Free(p)

NextNotify ==
    \/ Tick
    \/ PostTrip(NarrowInputs)
    \/ PostPlan
    \/ AllAnswered /\ ArriveNotify
    \/ StepNotify

SpecNotify == Init /\ [][NextNotify]_vars

\* the administrator's routes next to the drivers' and passengers', one
\* request at a time
AdminInputs ==
    [callers |-> {AdminTg, 101}, blocked |-> {101},
     monetization |-> {"true", "false", "null", Undefined},
     details |-> {Undefined, "card"},
     driverTg |-> {101}, passengerTg |-> {102}, newTg |-> {101, UnknownTg},
     seats |-> {1}, totals |-> {1}, prices |-> {10}, departures |-> {NaT}]

ArriveAdmin(in) ==
    \E p \in Procs :
        \/ \E tg \in in.callers, m \in in.monetization, d \in in.details :
               adminSettings(p, tg, m, d)
        \/ \E tg \in in.callers, dtg \in in.blocked, b \in BOOLEAN :
               blockDriver(p, tg, dtg, b)
        \/ \E tg \in in.driverTg, d \in in.departures, s \in in.totals,
              c \in in.prices : postTrip(p, tg, d, s, c)
        \/ \E tg \in in.driverTg : paymentProof(p, tg)
        \/ \E t \in 1..MaxGateTrips, tg \in in.passengerTg, n \in in.seats :
               createBooking(p, t, tg, n)

StepAdmin ==
    \E p \in Procs :
        \/ asAuth(p) \/ asUpdate(p) \/ bdAuth(p) \/ bdUpdate(p)
        \/ ptGetUser(p) \/ ptSettings(p) \/ ptStats(p) \/ ptProof(p) \/ ptCreate(p)
        \/ ppGetUser(p) \/ ppSave(p)
        \/ cbGetTrip(p) \/ cbGetUser(p) \/ cbBegin(p) \/ cbInsert(p)
        \/ cbUpdate(p) \/ cbCommit(p)

NextAdmin ==
    \/ NoneInFlight /\ Tick
    \/ NoneInFlight /\ \E tg \in AdminInputs.newTg : upsertUserFromTelegram(tg, "a")
    \/ NoneInFlight /\ ArriveAdmin(AdminInputs)
    \/ StepAdmin

SpecAdmin == Init /\ [][NextAdmin]_vars

\* the plan handlers, with overlapping requests
NextPlans ==
    \/ Tick
    \/ PostPlan
    \/ ArrivePlan
    \/ StepPlan

SpecPlans == Init /\ [][NextPlans]_vars

\* two trips of driver 1, posted before the first request: each with one
\* seat, leaving at MaxTime
InitApart ==
    /\ users = [i \in 1..Cardinality(RegisteredTg) |->
                  [telegram_id |-> 100 + i, no_show_count |-> 0, is_blocked |-> FALSE,
                   first_name |-> "a", car_plate |-> ""]]
    /\ trips = [i \in 1..MaxGateTrips |-> NewTrip(i, 1, MaxTime, 1, 10)]
    /\ tripSeq = MaxGateTrips
    /\ bookings = << >>
    /\ plans = << >>
    /\ inTx = FALSE
    /\ now = 0
    /\ settings = [monetization_enabled |-> FALSE, payment_details |-> ""]
    /\ proofs = << >>
    /\ undo = NoRow
    /\ procs = [p \in PlanProcs |-> Idle]
    /\ tz = 0

\* the trip that the request in slot p works on (0: none)
TripOfRequest(p) ==
    LET r == procs[p] IN
    IF r.op \in {"createBooking", "deleteTripByDriver"} THEN r.tripId
    ELSE IF r.bookingId \in BookingIds THEN bookings[r.bookingId].trip_id
    ELSE 0

\* no request in flight works on trip t
NobodyOn(t) == \A q \in Procs : InFlight(q) => TripOfRequest(q) # t

\* requests overlap, each on a trip that no other request in flight works on
ArriveApart ==
    \E p \in Procs :
        \/ \E t \in 1..MaxGateTrips, tg \in NarrowInputs.passengerTg :
               NobodyOn(t) /\ createBooking(p, t, tg, 1)
        \/ \E b \in BookingIds, u \in NarrowInputs.cancellers :
               NobodyOn(bookings[b].trip_id) /\ cancelBookingByPassenger(p, b, u)
        \/ \E b \in BookingIds, u \in NarrowInputs.driverCallers :
               NobodyOn(bookings[b].trip_id) /\ markBookingNoShow(p, b, u)
        \/ \E t \in 1..MaxGateTrips, u \in NarrowInputs.driverCallers :
               NobodyOn(t) /\ deleteTripByDriver(p, t, u)

NextApart ==
    \/ ArriveApart
    \/ StepBooking

SpecApart == InitApart /\ [][NextApart]_vars

\* first contacts, profile changes and the administrator's block overlap
UpsertInputs ==
    [tg |-> {101, UnknownTg}, names |-> {"a", "b"}, plates |-> {"x"},
     blocked |-> {101}]

ArriveUpsert(in) ==
    \E p \in Procs :
        \/ \E tg \in in.tg, n \in in.names : initUser(p, tg, n)
        \/ \E tg \in in.tg, c \in in.plates : updateDriverCarProfile(p, tg, c)
        \/ \E dtg \in in.blocked, b \in BOOLEAN : blockDriver(p, AdminTg, dtg, b)

StepUpsert ==
    \E p \in Procs :
        \/ iuGet(p) \/ iuUpdate(p) \/ iuInsert(p)
        \/ dcGetUser(p) \/ dcUpdate(p)
        \/ bdAuth(p) \/ bdUpdate(p)

NextUpsert ==
    \/ ArriveUpsert(UpsertInputs)
    \/ StepUpsert

SpecUpsert == Init /\ [][NextUpsert]_vars

\* one request at a time, and the clock runs on past the departure
NextLate ==
    \/ TickTo(MaxLateTime)
    \/ PostTrip(NarrowInputs)
    \/ NoneInFlight /\ ArriveBooking(NarrowInputs)
    \/ StepBooking

SpecLate == Init /\ [][NextLate]_vars

\* prices whose fee has a part of a unit to round, one request at a time
FeeInputs ==
    [passengerTg |-> {102}, cancellers |-> {2}, driverCallers |-> {1},
     seats |-> {1, 2}, totals |-> {2}, prices |-> {0, 4, 15, 26}]

NextFee ==
    \/ PostTrip(FeeInputs)
    \/ NoneInFlight /\ ArriveBooking(FeeInputs)
    \/ StepBooking

SpecFee == Init /\ [][NextFee]_vars

(***************************************************************************)
(* Properties.                                                             *)
(***************************************************************************)
Done(p, op, res) ==
    procs[p].pc = "done" /\ procs[p].op = op /\ procs[p].res = res

RECURSIVE SumSeats(_, _)
\* the seats of the bookings in ids, those with a status in statuses
SumSeats(ids, statuses) ==
    IF ids = {} THEN 0
    ELSE LET b == CHOOSE x \in ids : TRUE IN
         (IF bookings[b].status \in statuses THEN bookings[b].seats_booked ELSE 0)
           + SumSeats(ids \ {b}, statuses)

BookingsOf(tripId) == {b \in BookingIds : bookings[b].trip_id = tripId}

\* C1: no interleaving of createBooking calls drives a trip's
\* seats_available below 0.
C1_SeatsNeverNegative ==
    \A t \in DOMAIN trips : trips[t].seats_available >= 0

\* C2: over any number of cancelBookingByPassenger calls on one booking, at
\* most one succeeds and the seats come back once: when the booking is the
\* only one of its trip and no request is in flight, all seats are available
\* again, no more.
C2_CancelRestoresOnce ==
    /\ \A p, q \in Procs :
          /\ p # q
          /\ Done(p, "cancelBookingByPassenger", "OK")
          /\ Done(q, "cancelBookingByPassenger", "OK")
          => procs[p].bookingId # procs[q].bookingId
    /\ \A t \in DOMAIN trips :
          /\ NoneInFlight
          /\ Cardinality(BookingsOf(t)) = 1
          /\ \A b \in BookingsOf(t) : bookings[b].status = "cancelled"
          => trips[t].seats_available = trips[t].seats_total

\* C3: marking a booking no-show again does not count again: a passenger's
\* no_show_count never exceeds the number of that passenger's bookings that
\* are marked no_show.
C3_NoShowCountedOnce ==
    \A u \in UserIds :
        users[u].no_show_count <=
            Cardinality({b \in BookingIds : /\ bookings[b].passenger_id = u
                                            /\ bookings[b].status = "no_show"})

\* C6: a trip that has a booking row is never deleted, so every booking's
\* trip_id refers to an existing trip.
C6_BookingTripExists ==
    \A b \in BookingIds : bookings[b].trip_id \in DOMAIN trips

\* C7: every trip has seats_available <= seats_total.
C7_SeatsAtMostTotal ==
    \A t \in DOMAIN trips : trips[t].seats_available <= trips[t].seats_total

\* C8: cancelled and no_show are terminal: a booking's status changes only
\* from booked.
C8_TerminalStatuses ==
    [][\A b \in BookingIds :
          bookings'[b].status # bookings[b].status => bookings[b].status = "booked"]_vars

(***************************************************************************)
(* Plans: who wins a plan.                                                 *)
(***************************************************************************)
\* the takePlan request in slot p claimed plan pl
Won(p, pl) ==
    /\ procs[p].op = "takePlan"
    /\ procs[p].planId = pl
    /\ \/ procs[p].pc = "tk_full"
       \/ procs[p].pc = "done" /\ procs[p].res = "OK"

\* the takePlan requests on plan pl
Racers(pl) ==
    {p \in PlanProcs : procs[p].op = "takePlan" /\ procs[p].planId = pl}

\* every takePlan request on plan pl arrived while the plan was open, came
\* from a registered driver of its own and was answered; the plan was not
\* cancelled and its desired time has not come
RaceOver(pl) ==
    /\ Racers(pl) # {}
    /\ \A p \in Racers(pl) :
          procs[p].early /\ procs[p].pc = "done" /\ procs[p].uid # 0
    /\ \A p, q \in Racers(pl) : procs[p].uid = procs[q].uid => p = q
    /\ plans[pl].status # "cancelled"
    /\ ~TooLate(plans[pl].desired_time, now)

Winners(pl) == {p \in Racers(pl) : procs[p].res = "OK"}

C4_OneWinner ==
    \A pl \in PlanIds :
        /\ \A p, q \in PlanProcs : Won(p, pl) /\ Won(q, pl) => p = q
        /\ \A p \in PlanProcs : Won(p, pl) => plans[pl].driver_id = procs[p].uid

C4_DriverKept ==
    \A pl \in PlanIds :
        plans[pl].driver_id # 0 => plans'[pl].driver_id = plans[pl].driver_id

\* C4: over any interleaving of takePlan requests, at most one request on a
\* plan succeeds, the plan's driver_id is the driver of that request, and a
\* driver_id once set is never overwritten.
C4_AtMostOneClaim == []C4_OneWinner /\ [][C4_DriverKept]_vars

\* two drivers raced for a plan: one won it and holds it, the other was told
\* that it was already taken
C4_Witness ==
    \E pl \in PlanIds : \E p, q \in PlanProcs :
        /\ Done(p, "takePlan", "OK") /\ procs[p].planId = pl
        /\ Done(q, "takePlan", "ALREADY_TAKEN") /\ procs[q].planId = pl
        /\ procs[q].uid # procs[p].uid
        /\ plans[pl].driver_id = procs[p].uid

C9_SeatsBalance ==
    \A t \in DOMAIN trips :
        /\ NoneInFlight
        /\ \A b \in BookingsOf(t) : bookings[b].status # "no_show"
        => trips[t].seats_available =
              trips[t].seats_total - SumSeats(BookingsOf(t), {"booked"})

\* a createBooking that asks for more than is available is answered
\* NOT_ENOUGH_SEATS and changes nothing; one that succeeds leaves the seats it
\* found less the seats it asked for
C9_BookingStep ==
    \A p \in Procs :
        /\ (/\ At(p, "cb_getTrip")
            /\ procs'[p] # procs[p]
            /\ procs[p].tripId \in DOMAIN trips
            /\ procs[p].seats > 0
            /\ trips[procs[p].tripId].seats_available < procs[p].seats)
           => /\ procs'[p].pc = "done"
              /\ procs'[p].res = "NOT_ENOUGH_SEATS"
              /\ trips' = trips
              /\ bookings' = bookings
        /\ (At(p, "cb_commit") /\ procs'[p].pc = "done" /\ procs'[p].res = "OK")
           => /\ procs[p].tripId \in DOMAIN trips'
              /\ trips'[procs[p].tripId].seats_available =
                    procs[p].row.seats_available - procs[p].seats

\* C9: requests run one after another: a successful createBooking takes
\* exactly the seats asked for, a request for more than is left is rejected
\* with InsufficientSeats and changes nothing, and a successful cancel gives
\* back exactly the booking's seats (3 seats, book 2 -> 1, book 2 rejected,
\* cancel -> 3, book 2 -> 1).
C9_BookCancelRebook == []C9_SeatsBalance /\ [][C9_BookingStep]_vars

\* the end of the scenario: the first passenger's 2 seats were booked and
\* cancelled, the second passenger's 2 seats are booked, 1 of 3 is left
C9_Witness ==
    /\ NoneInFlight
    /\ Done(1, "createBooking", "OK")
    /\ 1 \in DOMAIN trips
    /\ trips[1].seats_total = 3
    /\ trips[1].seats_available = 1
    /\ Len(bookings) = 2
    /\ \A b \in BookingIds : bookings[b].trip_id = 1 /\ bookings[b].seats_booked = 2
    /\ bookings[1].passenger_id = 2 /\ bookings[1].status = "cancelled"
    /\ bookings[2].passenger_id = 3 /\ bookings[2].status = "booked"

(***************************************************************************)
(* Cancelling at or after the departure.                                   *)
(***************************************************************************)
\* C10: a cancel by the booking's passenger, on a booked booking, when
\* now >= departure, is rejected with TooLate and leaves the booking's
\* status and the trip's seats as they were.
C10_LateCancelRejected ==
    [][\A p \in Procs :
          LET row == BookingWithTrip(procs[p].bookingId) IN
          /\ At(p, "cn_get")
          /\ procs'[p] # procs[p]
          /\ row # NoRow
          /\ row.passenger_id = procs[p].caller
          /\ row.status = "booked"
          /\ IsFinite(row.departure_time)
          /\ now >= row.departure_time
          => /\ procs'[p].pc = "done"
             /\ procs'[p].res = "TOO_LATE"
             /\ bookings' = bookings
             /\ trips' = trips]_vars

\* a cancel made at the very moment of departure was rejected; the booking
\* is still booked and its seats are still taken
C10_Witness ==
    \E p \in Procs :
        /\ Done(p, "cancelBookingByPassenger", "TOO_LATE")
        /\ procs[p].bookingId \in BookingIds
        /\ LET b == bookings[procs[p].bookingId] IN
             /\ b.status = "booked"
             /\ b.trip_id \in DOMAIN trips
             /\ trips[b.trip_id].departure_time = now
             /\ trips[b.trip_id].seats_available =
                    trips[b.trip_id].seats_total - b.seats_booked

(***************************************************************************)
(* The preconditions of createBooking and what it returns.                 *)
(***************************************************************************)
\* the failure of a createBooking request r when the checks are made in the
\* order seat count, trip, passenger, available seats ("" when all pass)
SeatsFirstFailure(r) ==
    IF BadSeats(r.seats) THEN "BAD_SEATS"
    ELSE IF r.tripId \notin DOMAIN trips THEN "TRIP_NOT_FOUND"
    ELSE IF getUserByTelegramId(r.caller) = 0 THEN "PASSENGER_NOT_FOUND"
    ELSE IF NotEnoughSeats(trips[r.tripId], r.seats) THEN "NOT_ENOUGH_SEATS"
    ELSE ""

\* C14: createBooking checks the seat count, then the trip, then the
\* passenger, then the available seats: a request rejected on a precondition
\* is answered with the first failure in this order.
C14_SeatsTripPassengerAvailable ==
    [][\A p \in Procs :
          /\ procs[p].op = "createBooking"
          /\ procs[p].pc \in {"cb_getTrip", "cb_getUser"}
          /\ procs'[p].pc = "done"
          => procs'[p].res = SeatsFirstFailure(procs[p])]_vars

\* C17: the trip that a successful createBooking returns has the stored
\* seats_available, the one after the decrement.
C17_ReturnedTripIsUpdated ==
    [][\A p \in Procs :
          /\ At(p, "cb_commit")
          /\ procs'[p].pc = "done"
          /\ procs'[p].res = "OK"
          /\ procs[p].tripId \in DOMAIN trips'
          => ReturnedTrip(procs[p]).seats_available =
                trips'[procs[p].tripId].seats_available]_vars

(***************************************************************************)
(* The failures of cancelBookingByPassenger and markBookingNoShow.         *)
(***************************************************************************)
\* C18: a cancel fails with BookingNotFound for an unknown booking, else
\* Forbidden for a caller who is not its passenger, else InvalidStatus when
\* the status is not booked, else TooLate when the departure has come; a
\* cancel that fails leaves bookings and trips as they were.
C18_CancelFailures ==
    [][\A p \in Procs :
          LET r == procs[p]
              known == r.bookingId \in BookingIds
              b == bookings[r.bookingId]
              own == b.passenger_id = r.caller
              dep == trips[b.trip_id].departure_time IN
          At(p, "cn_get") /\ procs'[p] # procs[p] =>
             /\ ~known => procs'[p].res = "BOOKING_NOT_FOUND"
             /\ known /\ ~own => procs'[p].res = "FORBIDDEN"
             /\ known /\ own /\ b.status # "booked" => procs'[p].res = "BAD_STATUS"
             /\ known /\ own /\ b.status = "booked" /\ IsFinite(dep) /\ now >= dep
                  => procs'[p].res = "TOO_LATE"
             /\ procs'[p].res # "" =>
                  /\ procs'[p].pc = "done"
                  /\ bookings' = bookings
                  /\ trips' = trips]_vars

\* a second cancel of a cancelled booking was rejected; the seats that the
\* first cancel gave back are on the trip once
C18_Witness ==
    \E p \in Procs :
        /\ Done(p, "cancelBookingByPassenger", "BAD_STATUS")
        /\ procs[p].bookingId \in BookingIds
        /\ Len(bookings) = 1
        /\ LET b == bookings[procs[p].bookingId] IN
             /\ b.status = "cancelled"
             /\ b.trip_id \in DOMAIN trips
             /\ trips[b.trip_id].seats_available = trips[b.trip_id].seats_total

\* C19: no step of a markBookingNoShow changes a trip: the seats of a
\* no_show booking stay taken.
C19_NoShowKeepsSeats ==
    [][\A p \in Procs :
          procs[p].op = "markBookingNoShow" /\ procs'[p] # procs[p]
          => trips' = trips]_vars

\* the only booking of a trip was marked no_show and its seats are still taken
C19_Witness ==
    \E p \in Procs :
        /\ Done(p, "markBookingNoShow", "OK")
        /\ Len(bookings) = 1
        /\ bookings[1].status = "no_show"
        /\ bookings[1].trip_id \in DOMAIN trips
        /\ LET t == trips[bookings[1].trip_id] IN
             t.seats_available = t.seats_total - bookings[1].seats_booked

\* C20: markBookingNoShow fails with BookingNotFound for an unknown booking
\* and with Forbidden for a caller who is not the driver of the booking's
\* trip; a call that fails leaves bookings and users as they were.
C20_NoShowFailures ==
    [][\A p \in Procs :
          LET r == procs[p]
              known == r.bookingId \in BookingIds
              b == bookings[r.bookingId] IN
          At(p, "ns_get") /\ procs'[p] # procs[p] =>
             /\ ~known => procs'[p].res = "BOOKING_NOT_FOUND"
             /\ known /\ trips[b.trip_id].driver_id # r.caller
                  => procs'[p].res = "FORBIDDEN"
             /\ procs'[p].res # "" =>
                  /\ procs'[p].pc = "done"
                  /\ bookings' = bookings
                  /\ users' = users]_vars

\* a caller who does not drive the trip tried to mark the booking: rejected, the booking
\* is still booked and nobody's counter moved
C20_Witness ==
    \E p \in Procs :
        /\ Done(p, "markBookingNoShow", "FORBIDDEN")
        /\ procs[p].bookingId \in BookingIds
        /\ bookings[procs[p].bookingId].status = "booked"
        /\ \A u \in UserIds : users[u].no_show_count = 0

(***************************************************************************)
(* Seat counts that are no positive whole number (seats counted in parts). *)
(***************************************************************************)
C15_BadCountRejected ==
    \A p \in Procs :
        /\ At(p, "cb_getTrip")
        /\ procs'[p] # procs[p]
        /\ procs[p].tripId \in DOMAIN trips
        /\ \/ procs[p].seats = NotANumber
           \/ procs[p].seats <= 0
           \/ ~IsWholeSeats(procs[p].seats)
        => /\ procs'[p].pc = "done"
           /\ procs'[p].res = "BAD_SEATS"
           /\ bookings' = bookings
           /\ trips' = trips

C15_WholeSeatsStored ==
    /\ \A b \in BookingIds :
          bookings[b].seats_booked > 0 /\ IsWholeSeats(bookings[b].seats_booked)
    /\ \A t \in DOMAIN trips : IsWholeSeats(trips[t].seats_available)

\* C15: a createBooking whose seat count is zero, negative, no number or no
\* whole number is rejected with the bad-seat-count failure; no booking row
\* holds such a count and no trip's seats_available moves by one.
C15_OnlyPositiveWholeSeats == []C15_WholeSeatsStored /\ [][C15_BadCountRejected]_vars

(***************************************************************************)
(* createBooking that fails (one request at a time, failing store).        *)
(***************************************************************************)
\* the tables as they were when the createBooking in slot p was called
AtCall(p) ==
    IF procs[p].pc \in {"cb_insert", "cb_update", "cb_commit"} THEN undo ELSE Tables

\* C16: when createBooking is answered with a failure (a precondition or a
\* store error on BEGIN, INSERT, UPDATE or COMMIT), the bookings and every
\* trip's seats_available are what they were when it was called.
C16_FailureLeavesNoChange ==
    [][\A p \in Procs :
          /\ procs[p].op = "createBooking"
          /\ InFlight(p)
          /\ procs'[p].pc = "done"
          /\ procs'[p].res # "OK"
          => /\ bookings' = AtCall(p).bookings
             /\ trips' = AtCall(p).trips]_vars

(***************************************************************************)
(* The monetization gate (one request at a time, any server time zone).    *)
(***************************************************************************)
\* a row stamped createdAt (local time) was created on today's calendar day
OnLocalDay(createdAt) == DateOf(createdAt) = DateOf(LocalNow)

\* the driver's booked bookings that were created today
BookedToday(driverId) ==
    {b \in BookingIds :
        /\ bookings[b].trip_id \in DOMAIN trips
        /\ trips[bookings[b].trip_id].driver_id = driverId
        /\ bookings[b].status = "booked"
        /\ OnLocalDay(bookings[b].created_at)}

\* the driver's trips that have such a booking, and the fee they accrued
TripsToday(driverId) == {bookings[b].trip_id : b \in BookedToday(driverId)}
FeeToday(driverId) == SumFee(BookedToday(driverId))

\* a payment proof of the driver was saved today
ProofToday(driverId) ==
    \E i \in DOMAIN proofs :
        proofs[i].driver_id = driverId /\ OnLocalDay(proofs[i].created_at)

\* the driver has a trip booked today, fee accrued today and no proof of today
OwesToday(driverId) ==
    /\ TripsToday(driverId) # {}
    /\ FeeToday(driverId) > 0
    /\ ~ProofToday(driverId)

\* the request in slot p, a trip creation, takes the step st
GateStep(p, st) ==
    procs[p].op = "postTrip" /\ At(p, st) /\ procs'[p] # procs[p]

Denied(p) == procs'[p].pc = "done" /\ procs'[p].res = "GATE_DENIED"

\* C11: with monetization disabled the gate permits; with it enabled the gate
\* denies exactly when the driver has trips booked today, fee accrued today
\* and no payment proof of today.
C11_DeniesExactlyWhenOwing ==
    [][\A p \in Procs :
          /\ GateStep(p, "pt_settings") /\ ~settings.monetization_enabled
             => procs'[p].pc = "pt_create"
          /\ GateStep(p, "pt_proof")
             => (Denied(p) <=> OwesToday(procs[p].uid))]_vars

\* C12: with monetization enabled, a driver with one trip booked today, fee
\* accrued today and no proof of today is denied; once a proof of today is
\* saved for that driver, the attempt is permitted.
C12_DeniedUntilProofSaved ==
    [][\A p \in Procs :
          GateStep(p, "pt_proof")
          /\ Cardinality(TripsToday(procs[p].uid)) = 1
          /\ FeeToday(procs[p].uid) > 0
          => (Denied(p) <=> ~ProofToday(procs[p].uid))]_vars

\* C13: a denial is always owed to a booking created today: bookings of
\* earlier calendar days never cause one.
C13_EarlierDaysNeverDeny ==
    [][\A p \in Procs :
          GateStep(p, "pt_proof") /\ Denied(p)
          => FeeToday(procs[p].uid) > 0]_vars

(***************************************************************************)
(* Deleting a trip.                                                        *)
(***************************************************************************)
\* the failures of deleteTripByDriver, first failing check first
C21_DeleteFailures(p) ==
    LET r == procs[p]
        known == r.tripId \in DOMAIN trips
        t == trips[r.tripId] IN
    /\ At(p, "dl_getTrip") /\ procs'[p] # procs[p] =>
          /\ ~known => procs'[p].res = "TRIP_NOT_FOUND"
          /\ known /\ t.driver_id # r.caller => procs'[p].res = "FORBIDDEN"
          /\ known /\ t.driver_id = r.caller /\ IsFinite(t.departure_time)
                /\ now >= t.departure_time => procs'[p].res = "TOO_LATE"
          /\ procs'[p].res # "" => procs'[p].pc = "done" /\ trips' = trips
    /\ At(p, "dl_count") /\ procs'[p] # procs[p] /\ BookingsCount(r.tripId) > 0 =>
          /\ procs'[p].pc = "done"
          /\ procs'[p].res = "HAS_BOOKINGS"
          /\ trips' = trips

\* a trip row disappears only in a delete by its driver, with no booking row
C21_DeletedRows ==
    \A t \in DOMAIN trips \ DOMAIN trips' :
        /\ BookingsCount(t) = 0
        /\ \E p \in Procs :
              /\ At(p, "dl_delete")
              /\ procs[p].tripId = t
              /\ procs[p].caller = trips[t].driver_id

\* C21: deleteTripByDriver fails with TripNotFound, else Forbidden, else
\* TooLate, else HasBookings, and then leaves the trip in place; a trip is
\* removed only by its driver and only when it has no booking row.
C21_DeleteOnlyWhenAllowed ==
    [][(\A p \in Procs : C21_DeleteFailures(p)) /\ C21_DeletedRows]_vars

(***************************************************************************)
(* The precondition failures of takePlan.                                  *)
(***************************************************************************)
\* C22: takePlan fails with PlanNotFound when the plan does not exist, with
\* PlanUnavailable when the status it reads is not active, with TooLate when
\* the desired time has come; each of these leaves the plans as they were.
C22_TakeFailures ==
    [][\A p \in PlanProcs :
          LET r == procs[p]
              known == r.planId \in PlanIds
              pl == plans[r.planId] IN
          At(p, "tk_getPlan") /\ procs'[p] # procs[p] =>
             /\ ~known => procs'[p].res = "PLAN_NOT_FOUND"
             /\ known /\ pl.status # "active" => procs'[p].res = "PLAN_UNAVAILABLE"
             /\ known /\ pl.status = "active" /\ IsFinite(pl.desired_time)
                   /\ now >= pl.desired_time => procs'[p].res = "TOO_LATE"
             /\ procs'[p].res # "" =>
                  /\ procs'[p].pc = "done"
                  /\ plans' = plans]_vars

\* a driver asked for a plan that another driver holds: told that it is
\* unavailable, and the plan still names the driver who took it
C22_Witness ==
    \E p, q \in PlanProcs :
        /\ Done(p, "takePlan", "PLAN_UNAVAILABLE")
        /\ Done(q, "takePlan", "OK")
        /\ procs[p].planId \in PlanIds /\ procs[q].planId = procs[p].planId
        /\ procs[p].uid # procs[q].uid
        /\ plans[procs[p].planId].status = "taken"
        /\ plans[procs[p].planId].driver_id = procs[q].uid
        /\ plans[procs[p].planId].taken_at # Null

(***************************************************************************)
(* Plans: takePlan against cancelPlan.                                     *)
(***************************************************************************)
\* C23: whenever a takePlan is answered AlreadyTaken, the plan is taken and
\* its driver_id is a driver other than the caller.
C23_AlreadyTakenByAnother ==
    [][\A p \in PlanProcs :
          /\ At(p, "tk_update")
          /\ procs'[p].pc = "done"
          /\ procs'[p].res = "ALREADY_TAKEN"
          => /\ plans'[procs[p].planId].status = "taken"
             /\ plans'[procs[p].planId].driver_id # 0
             /\ plans'[procs[p].planId].driver_id # procs[p].uid]_vars

\* a plan's status moves only from active, to taken or to cancelled
C24_StatusMoves ==
    \A pl \in PlanIds :
        plans'[pl].status # plans[pl].status =>
            /\ plans[pl].status = "active"
            /\ plans'[pl].status \in {"taken", "cancelled"}

\* the write of a cancelPlan that succeeds finds the plan active
C24_CancelFindsActive ==
    \A p \in PlanProcs :
        /\ At(p, "cp_update")
        /\ procs'[p].pc = "done"
        /\ procs'[p].res = "OK"
        => plans[procs[p].planId].status = "active"

\* C24: a plan changes status only by active -> taken and active ->
\* cancelled; a taken plan never becomes cancelled, and a cancelPlan that
\* succeeds found the plan active at the moment of its write.
C24_TakenStaysTaken == [][C24_StatusMoves /\ C24_CancelFindsActive]_vars

(***************************************************************************)
(* Notifications after the mutation (one request at a time).               *)
(***************************************************************************)
\* the request in slot p is past its core mutation: the route looks up the
\* counterpart or sends the messages
Notifying(p) == procs[p].pc \in {"bk_lookup", "bk_send", "tk_full"}

\* the mutation of the request in slot p is committed and in place
Committed(p) ==
    LET r == procs[p] IN
    /\ ~inTx
    /\ r.op = "createBooking" =>
          r.bookingId \in BookingIds /\ bookings[r.bookingId].status = "booked"
    /\ r.op = "cancelBookingByPassenger" =>
          r.bookingId \in BookingIds /\ bookings[r.bookingId].status = "cancelled"
    /\ r.op = "takePlan" =>
          plans[r.planId].status = "taken" /\ plans[r.planId].driver_id = r.uid

\* C25: a booking, cancellation or plan-take request whose mutation has
\* committed is answered with success whatever happens to the lookup and
\* the sends, the committed state stays in place, and the notification step
\* runs only after the commit.
C25_NotifyNeverFailsRequest ==
    [][\A p \in PlanProcs :
          Notifying(p) /\ procs'[p] # procs[p] =>
             /\ Committed(p)
             /\ bookings' = bookings /\ trips' = trips /\ plans' = plans
             /\ procs'[p].pc = "done" => procs'[p].res = "OK"]_vars

(***************************************************************************)
(* The administrator: the settings row and the blocked flag.               *)
(***************************************************************************)
\* C26: a settings update by a caller who is not the administrator is
\* rejected and leaves the settings row as it was, and the row changes only
\* in the administrator's settings update.
C26_OnlyAdminChangesSettings ==
    [][/\ \A p \in Procs :
             At(p, "as_auth") /\ procs'[p] # procs[p] /\ procs[p].caller # AdminTg
             => /\ procs'[p].pc = "done"
                /\ procs'[p].res = "FORBIDDEN"
                /\ settings' = settings
       /\ settings' # settings =>
             \E p \in Procs :
                /\ procs[p].op = "adminSettings"
                /\ procs[p].caller = AdminTg
                /\ At(p, "as_update")
                /\ procs'[p].pc = "done"]_vars

\* somebody else's settings update was rejected: the row holds what the
\* administrator wrote
C26_Witness ==
    \E p \in Procs :
        /\ Done(p, "adminSettings", "FORBIDDEN")
        /\ settings = [monetization_enabled |-> TRUE, payment_details |-> "card"]

\* C27: a trip creation by a user whose blocked flag is set is denied and
\* creates no trip, whatever the settings, fees and proofs; a trip is created
\* only for a user whose flag is clear; the flag changes only in the
\* administrator's block/unblock request.
C27_BlockedCreatesNoTrip ==
    [][/\ \A p \in Procs :
             LET user == getUserByTelegramId(procs[p].caller) IN
             /\ At(p, "pt_getUser") /\ procs'[p] # procs[p] /\ user # 0
                   /\ users[user].is_blocked
                => /\ procs'[p].pc = "done"
                   /\ procs'[p].res = "BLOCKED"
                   /\ trips' = trips
             /\ At(p, "pt_create") /\ procs'[p] # procs[p]
                => ~users[procs[p].uid].is_blocked
       /\ (\E u \in UserIds : users'[u].is_blocked # users[u].is_blocked) =>
             \E p \in Procs :
                /\ procs[p].op = "blockDriver"
                /\ procs[p].caller = AdminTg
                /\ At(p, "bd_update")]_vars

\* a blocked driver asked for a trip while monetization was off: denied,
\* and there is no trip
C27_Witness ==
    \E p \in Procs :
        /\ Done(p, "postTrip", "BLOCKED")
        /\ users[getUserByTelegramId(101)].is_blocked
        /\ ~settings.monetization_enabled
        /\ trips = << >>

(***************************************************************************)
(* Seats consumed and seats held (one request at a time).                  *)
(***************************************************************************)
\* C28: between requests, every trip's consumed seats, seats_total -
\* seats_available, equal the seats of its bookings that are booked or
\* no_show.
C28_ConsumedEqualsHeld ==
    NoneInFlight =>
        \A t \in DOMAIN trips :
            trips[t].seats_total - trips[t].seats_available =
                SumSeats(BookingsOf(t), {"booked", "no_show"})

(***************************************************************************)
(* The no-show counter (one request at a time).                            *)
(***************************************************************************)
\* the bookings of passenger u that are marked no_show
NoShowsOf(u) ==
    {b \in BookingIds : bookings[b].passenger_id = u /\ bookings[b].status = "no_show"}

\* the counter moves only up by one, in the counter write of a
\* markBookingNoShow
C30_CounterSteps ==
    \A u \in UserIds :
        users'[u].no_show_count # users[u].no_show_count =>
            /\ users'[u].no_show_count = users[u].no_show_count + 1
            /\ \E p \in Procs : procs[p].op = "markBookingNoShow" /\ At(p, "ns_user")

\* between requests the counter is the number of the passenger's no_show
\* bookings
C30_CounterIsNoShows ==
    NoneInFlight =>
        \A u \in UserIds : users[u].no_show_count = Cardinality(NoShowsOf(u))

\* C30: no_show_count never decreases, changes only in a successful
\* markBookingNoShow, and equals the number of the passenger's bookings whose
\* status is no_show.
C30_CounterMatchesNoShows == []C30_CounterIsNoShows /\ [][C30_CounterSteps]_vars

(***************************************************************************)
(* markBookingNoShow as one unit (one request at a time, failing store).   *)
(***************************************************************************)
\* the tables as they were when the markBookingNoShow in slot p was called
BeforeNoShow(p) ==
    IF procs[p].pc \in {"ns_status", "ns_user", "ns_commit"} THEN undo ELSE Tables

\* C29: when markBookingNoShow returns, either it succeeded, the booking is
\* no_show and the passenger's no_show_count has grown by exactly 1, or it
\* failed and both the status and the counter have their pre-call values.
C29_NoShowAllOrNothing ==
    [][\A p \in Procs :
          LET r == procs[p]
              before == BeforeNoShow(p) IN
          /\ r.op = "markBookingNoShow"
          /\ InFlight(p)
          /\ procs'[p].pc = "done"
          /\ r.bookingId \in 1..Len(before.bookings)
          => LET u == before.bookings[r.bookingId].passenger_id IN
             IF procs'[p].res = "OK"
             THEN /\ bookings'[r.bookingId].status = "no_show"
                  /\ users'[u].no_show_count = before.users[u].no_show_count + 1
             ELSE /\ bookings'[r.bookingId].status =
                        before.bookings[r.bookingId].status
                  /\ users'[u].no_show_count = before.users[u].no_show_count]_vars

(***************************************************************************)
(* Operations on different trips.                                          *)
(***************************************************************************)
\* C31: operations that run at the same time on different trips do not
\* affect each other; in particular none of them fails at a statement of
\* the store (BEGIN) because of the other: with a store that never fails,
\* no request is answered with a store error.
C31_ApartNeverFail ==
    [][\A p \in Procs :
          InFlight(p) /\ procs'[p].pc = "done"
          => procs'[p].res # "STORE_ERROR"]_vars

(***************************************************************************)
(* The seat columns of a trip.                                             *)
(***************************************************************************)
\* the request in slot p has opened a transaction and not yet ended it
InTransaction(p) ==
    procs[p].pc \in {"cb_insert", "cb_update", "cb_commit",
                     "cn_status", "cn_seats", "cn_commit",
                     "ns_status", "ns_user", "ns_commit",
                     "dl_delete", "dl_commit"}

\* the trips as they were when the request in slot p was called
\* (one request at a time)
TripsBefore(p) == IF InTransaction(p) THEN undo.trips ELSE trips

\* C32: seats_total never changes; a new trip has seats_available =
\* seats_total > 0; and when a request returns, a trip's seats_available
\* differs from what it was at the call only if the request is a
\* createBooking that succeeded (fewer seats) or a cancelBookingByPassenger
\* that succeeded (more seats); no other step changes it.
C32_SeatsFrame ==
    [][/\ \A t \in DOMAIN trips' \ DOMAIN trips :
              /\ trips'[t].seats_available = trips'[t].seats_total
              /\ trips'[t].seats_total > 0
       /\ \A p \in Procs :
              InFlight(p) /\ procs'[p].pc = "done"
              => \A t \in DOMAIN TripsBefore(p) \cap DOMAIN trips' :
                    LET was == TripsBefore(p)[t].seats_available
                        is == trips'[t].seats_available IN
                    /\ trips'[t].seats_total = TripsBefore(p)[t].seats_total
                    /\ is # was
                       => /\ procs'[p].res = "OK"
                          /\ \/ procs[p].op = "createBooking" /\ is < was
                             \/ procs[p].op = "cancelBookingByPassenger" /\ is > was
       /\ NoneInFlight
          => \A t \in DOMAIN trips \cap DOMAIN trips' : trips'[t] = trips[t]]_vars

(***************************************************************************)
(* Payment proofs and the day they are good for.                           *)
(***************************************************************************)
\* the driver has a payment proof, and none of today
OnlyEarlierProofs(driverId) ==
    /\ \E i \in DOMAIN proofs : proofs[i].driver_id = driverId
    /\ ~ProofToday(driverId)

\* C33: payment proofs are only ever added; a trip creation of a driver
\* who has a proof saved today passes the gate, whatever fee has accrued
\* today; a proof saved on an earlier day does not satisfy the gate: the
\* driver with trips booked and fee accrued today is denied.
C33_ProofGoodForItsDay ==
    [][/\ Len(proofs') >= Len(proofs)
       /\ \A i \in DOMAIN proofs : proofs'[i] = proofs[i]
       /\ \A p \in Procs :
             GateStep(p, "pt_proof")
             => /\ ProofToday(procs[p].uid) => ~Denied(p)
                /\ /\ OnlyEarlierProofs(procs[p].uid)
                   /\ TripsToday(procs[p].uid) # {}
                   /\ FeeToday(procs[p].uid) > 0
                   => Denied(p)]_vars

(***************************************************************************)
(* The fee that the gate counts.                                           *)
(***************************************************************************)
\* C34: the fee the gate counts for a driver is the sum of app_fee over
\* the bookings of today on the driver's trips that have status booked; a
\* driver none of whose bookings of today is still booked (all are
\* cancelled or no_show) is permitted, with or without a proof.
C34_FeeOfBookedOnly ==
    [][\A p \in Procs :
          /\ GateStep(p, "pt_stats")
             => procs'[p].row.app_fee_total = FeeToday(procs[p].uid)
          /\ GateStep(p, "pt_proof") /\ BookedToday(procs[p].uid) = {}
             => ~Denied(p)]_vars

(***************************************************************************)
(* First contact.                                                          *)
(***************************************************************************)
\* the user rows that have the external id tg
RowsOf(tbl, tg) == {u \in DOMAIN tbl : tbl[u].telegram_id = tg}

\* external ids are unique
C35_UniqueIds ==
    \A u, v \in UserIds : users[u].telegram_id = users[v].telegram_id => u = v

\* no user row is deleted and none changes its external id
C35_RowsKept ==
    /\ Len(users') >= Len(users)
    /\ \A u \in UserIds : users'[u].telegram_id = users[u].telegram_id

\* every upsert that returns has succeeded and has left exactly one row
\* with its external id; the final statement of an upsert leaves the
\* counter, the flag and the vehicle of every existing user unchanged
C35_UpsertReturns ==
    \A p \in Procs :
        procs[p].op = "initUser" /\ InFlight(p) /\ procs'[p].pc = "done"
        => /\ procs'[p].res = "OK"
           /\ Cardinality(RowsOf(users', procs[p].caller)) = 1
           /\ \A u \in UserIds :
                 /\ users'[u].no_show_count = users[u].no_show_count
                 /\ users'[u].is_blocked = users[u].is_blocked
                 /\ users'[u].car_plate = users[u].car_plate

\* C35: upserts of one unseen external id that run at the same time all
\* succeed and leave exactly one row with that id; external ids are unique
\* in every state, no user row is ever deleted, and an upsert of an
\* existing user leaves its internal id, no_show_count, blocked flag and
\* vehicle unchanged.
C35_UpsertSafe ==
    [][C35_UniqueIds' /\ C35_RowsKept /\ C35_UpsertReturns]_vars

(***************************************************************************)
(* The driver of a plan.                                                   *)
(***************************************************************************)
\* C36: a plan has a driver exactly when its status is taken: active and
\* cancelled plans have none; and the driver of a taken plan is the one
\* whose takePlan succeeded.
C36_DriverIffTaken ==
    /\ \A pl \in PlanIds : (plans[pl].driver_id # 0) <=> (plans[pl].status = "taken")
    /\ \A p \in PlanProcs :
          Done(p, "takePlan", "OK") /\ plans[procs[p].planId].status = "taken"
          => plans[procs[p].planId].driver_id = procs[p].uid

(***************************************************************************)
(* The departure time: bookings, cancels and deletions.                    *)
(***************************************************************************)
\* the trip of booking b has a departure time and b was created at it or
\* after it
CreatedLate(b) ==
    /\ bookings[b].trip_id \in DOMAIN trips
    /\ IsFinite(trips[bookings[b].trip_id].departure_time)
    /\ bookings[b].created_at >= trips[bookings[b].trip_id].departure_time

C38_OnlySuppliedFields ==
    [][\A p \in Procs :
          LET r == procs[p] IN
          At(p, "as_update") /\ procs'[p].pc = "done"
          => /\ r.row.monetization_enabled = Undefined
                => settings'.monetization_enabled = settings.monetization_enabled
             /\ r.row.payment_details = Undefined
                => settings'.payment_details = settings.payment_details]_vars

(***************************************************************************)
(* Transactions are closed.                                                *)
(***************************************************************************)
\* C39: when createBooking, cancelBookingByPassenger, markBookingNoShow or
\* deleteTripByDriver returns, with success or with the failure of a
\* statement of its transaction, the transaction it opened is closed.
C39_TransactionClosed ==
    [][\A p \in Procs :
          InTransaction(p) /\ procs'[p].pc = "done" => ~inTx']_vars

(***************************************************************************)
(* The amounts of a booking.                                               *)
(***************************************************************************)
\* fee is a whole amount nearest to the fee percentage of total
NearestFee(fee, total) ==
    /\ 100 * fee - AppFeePercent * total <= 50
    /\ AppFeePercent * total - 100 * fee <= 50

\* the amounts of booking b follow from the price of its trip
AmountsRight(b) ==
    /\ b.trip_id \in DOMAIN trips
    /\ b.amount_total = trips[b.trip_id].price_per_seat * b.seats_booked
    /\ NearestFee(b.app_fee, b.amount_total)
    /\ b.driver_amount = b.amount_total - b.app_fee
    /\ b.driver_amount + b.app_fee = b.amount_total
    /\ 0 <= b.app_fee /\ b.app_fee <= b.amount_total

\* C40: every booking has amount_total = price_per_seat * seats_booked,
\* app_fee the fee percentage of it rounded to the nearest unit,
\* driver_amount = amount_total - app_fee and 0 <= app_fee <= amount_total;
\* the amounts of a booking never change, whatever its status becomes.
C40_AmountsFixed ==
    [][/\ \A b \in 1..Len(bookings') :
             LET row == bookings'[b] IN
             /\ row.trip_id \in DOMAIN trips'
             /\ row.amount_total = trips'[row.trip_id].price_per_seat * row.seats_booked
             /\ NearestFee(row.app_fee, row.amount_total)
             /\ row.driver_amount = row.amount_total - row.app_fee
             /\ 0 <= row.app_fee /\ row.app_fee <= row.amount_total
       /\ \A b \in BookingIds :
             /\ bookings'[b].amount_total = bookings[b].amount_total
             /\ bookings'[b].app_fee = bookings[b].app_fee
             /\ bookings'[b].driver_amount = bookings[b].driver_amount]_vars

\* a booking whose fee was rounded up has been cancelled, another whose fee
\* was rounded is a no-show, and both still carry their amounts
C40_Witness ==
    \E b, c \in BookingIds :
        /\ bookings[b].status = "cancelled"
        /\ bookings[c].status = "no_show"
        /\ bookings[b].amount_total = 26 /\ bookings[b].app_fee = 3
        /\ bookings[c].amount_total % 10 # 0
        /\ AmountsRight(bookings[b]) /\ AmountsRight(bookings[c])
====
